---- MODULE Spec2Model ----
(***************************************************************************)
(* A model of the tagbox package of roaring-tags: the TagSystem index      *)
(* (tag name -> roaring bitmap, plus allObjects), its mutators, lookups    *)
(* and queries, and its durability paths (Redis replica, snapshot file).   *)
(*                                                                         *)
(* A roaring bitmap is modelled by the set of identifiers it holds; an     *)
(* in-place bitmap method (Add, Remove, And, Or, ...) by the set it leaves  *)
(* in the receiver.  The Go map ts.tags is a function whose DOMAIN is the  *)
(* set of tags present.                                                    *)
(***************************************************************************)
EXTENDS Integers, Sequences, FiniteSets, TLC

\* ------------------------------------------------------------------ bounds

\* Object identifiers are 1..MaxObj (uint32 in the code).
MaxObj == 2

\* Longest argument list handed to a batch operation or a multi-tag query.
MaxLen == 2

Objs == 1..MaxObj

\* Tag names used by the callers of the model.
TagNames == {"a", "b"}

\* Threads of the concurrent specifications.
NumThreads == 2

\* Ticks of the background worker's ticker the model follows.
MaxTicks == 4

Threads == 1..NumThreads

SeqsUpTo(S, n) == UNION {[1..k -> S] : k \in 0..n}

TagLists == SeqsUpTo(TagNames, MaxLen)

ObjLists == SeqsUpTo(Objs, MaxLen)

\* ------------------------------------------------------------------- state

VARIABLES
    tags,        \* ts.tags: tag name -> bitmap, DOMAIN = the tags present
    allObjects,  \* ts.allObjects
    autoSave,    \* ts.config.AutoSave
    saveChan,    \* number of signals buffered in ts.config.SaveChan
    pendingDel,  \* keys of the `go ts.redis.Del(...)` goroutines not yet run
    redis,       \* the external store: key -> bytes, DOMAIN = the keys present
    conn,        \* ts.redis, the client's connection: "open" or "closed"
    lastTrigger, \* saveWorker's lastTrigger: -1 for the zero time, else the number
                 \* of ticks since the tick at which it was set
    ticks,       \* number of times saveWorker's ticker has fired
    passes,      \* number of SaveToRedis passes saveWorker has made
    file,        \* the snapshot file at config.SnapshotPath
    mu,          \* ts.mu: [w |-> thread holding Lock or 0, r |-> threads holding RLock]
    pc,          \* thread -> the step of its current call it executes next
    loc,         \* thread -> the local variables of its current call
    ret          \* the last call and what it returned to its caller

\* What no call made by a single caller changes: the configuration, and the
\* lock and the threads (each such call takes and releases ts.mu itself).
fixedVars == <<autoSave, conn, lastTrigger, ticks, passes, mu, pc, loc>>

vars == <<tags, allObjects, autoSave, saveChan, pendingDel, redis, conn, lastTrigger,
          ticks, passes, file, mu, pc, loc, ret>>

\* ------------------------------------------------------- maps and bitmaps

\* m[k] = v on a Go map.
MapPut(m, k, v) == [x \in (DOMAIN m) \cup {k} |-> IF x = k THEN v ELSE m[x]]

\* delete(m, k) on a Go map.
MapDelete(m, k) == [x \in (DOMAIN m) \ {k} |-> m[x]]

EmptyMap == [x \in {} |-> {}]

\* The contents of the bitmap the map holds for a tag (none: no contents).
SetOfTag(m, tag) == IF tag \in DOMAIN m THEN m[tag] ELSE {}

\* roaring.NewBitmap()
NewBitmap == {}

\* bitmap.Clone(): a new bitmap holding the same identifiers.
Clone(b) == {x \in b : TRUE}

\* A plausible slip: the loaded bitmap replaces the receiver.
BitmapOr_Assign(receiver, other) == other

\* receiver.Or(other): what the receiver holds afterwards.
BitmapOr(receiver, other) == receiver \cup other

\* ------------------------------------------------------------ configuration

\* DefaultConfig: SaveChan is make(chan struct{}, 100), KeyPrefix is "tags:".
SaveChanCap == 100

KeyPrefix == "tags:"

TriggerSave_NoDrop(q) == IF autoSave THEN q + 1 ELSE q

\* The non-blocking send `select { case SaveChan <- struct{}{}: default: }`
\* that every mutator performs when AutoSave is set.
TriggerSave(q) == IF autoSave /\ q < SaveChanCap THEN q + 1 ELSE q

\* ---------------------------------------------------------------- mutators

\* AddTag, lines 123-129: look the tag up, create it when absent, Add.
\* A plausible slip: bitmap.Flip in place of bitmap.Add, so that adding an
\* object the tag already holds takes it out.
AddTagTags_Flip(m, objectID, tag) ==
    LET bitmap == IF tag \in DOMAIN m THEN m[tag] ELSE NewBitmap
    IN  MapPut(m, tag, IF objectID \in bitmap THEN bitmap \ {objectID}
                                              ELSE bitmap \cup {objectID})

AddTagTags(m, objectID, tag) ==
    LET bitmap == IF tag \in DOMAIN m THEN m[tag] ELSE NewBitmap
    IN  MapPut(m, tag, bitmap \cup {objectID})

AddTag(objectID, tag) ==
    /\ tags' = AddTagTags(tags, objectID, tag)
    /\ allObjects' = allObjects \cup {objectID}
    /\ saveChan' = TriggerSave(saveChan)
    /\ ret' = [op |-> "AddTag", objectID |-> objectID, tag |-> tag, err |-> "nil"]
    /\ UNCHANGED <<pendingDel, redis, file, fixedVars>>

\* A plausible slip: RemoveTag deletes the tag whatever its bitmap still holds.
RemoveTagTags_DropsTag(m, objectID, tag) ==
    IF tag \notin DOMAIN m THEN m ELSE MapDelete(m, tag)

\* A plausible slip: the tag stays in the map when its bitmap becomes empty.
RemoveTagTags_KeepsEmpty(m, objectID, tag) ==
    IF tag \notin DOMAIN m THEN m ELSE MapPut(m, tag, m[tag] \ {objectID})

\* RemoveTag, lines 149-158: the tag map after the call.
RemoveTagTags(m, objectID, tag) ==
    IF tag \notin DOMAIN m
    THEN m
    ELSE LET bitmap == m[tag] \ {objectID}
         IN  IF Cardinality(bitmap) = 0
             THEN MapDelete(m, tag)
             ELSE MapPut(m, tag, bitmap)

\* RemoveTag, lines 157-159: whether the call deletes the tag (and spawns
\* the goroutine that deletes its Redis key).
RemoveTagEmpties(m, objectID, tag) ==
    tag \in DOMAIN m /\ Cardinality(m[tag] \ {objectID}) = 0

MaxPendingDel == 1

\* The key of a tag's replica: ts.config.KeyPrefix + tag.
Key(tag) == KeyPrefix \o tag

\* The reserved key RecoverFromRedis passes over.
MetaKey == KeyPrefix \o "_meta"

\* The keys the model's callers can make the system touch.
Keys == {Key(t) : t \in TagNames} \cup {MetaKey}

\* One more `go ts.redis.Del(key)` goroutine in flight (a bag of keys,
\* saturating at MaxPendingDel per key).
SpawnDel(p, key) ==
    [p EXCEPT ![key] = IF p[key] < MaxPendingDel THEN p[key] + 1 ELSE p[key]]

RemoveTag(objectID, tag) ==
    /\ tags' = RemoveTagTags(tags, objectID, tag)
    /\ IF tag \notin DOMAIN tags
       THEN UNCHANGED <<pendingDel, saveChan>>
       ELSE IF RemoveTagEmpties(tags, objectID, tag)
            THEN /\ pendingDel' = SpawnDel(pendingDel, Key(tag))
                 /\ UNCHANGED saveChan
            ELSE /\ saveChan' = TriggerSave(saveChan)
                 /\ UNCHANGED pendingDel
    /\ ret' = [op |-> "RemoveTag", objectID |-> objectID, tag |-> tag, err |-> "nil"]
    /\ UNCHANGED <<allObjects, redis, file, fixedVars>>

\* BatchAddTags, lines 175-182: the loop over the tag list.
RECURSIVE BatchAddTagsTags(_, _, _)
BatchAddTagsTags(m, objectID, tagList) ==
    IF tagList = <<>>
    THEN m
    ELSE BatchAddTagsTags(AddTagTags(m, objectID, Head(tagList)), objectID, Tail(tagList))

BatchAddTags(objectID, tagList) ==
    /\ tags' = BatchAddTagsTags(tags, objectID, tagList)
    /\ allObjects' = allObjects \cup {objectID}
    /\ saveChan' = TriggerSave(saveChan)
    /\ ret' = [op |-> "BatchAddTags", objectID |-> objectID, tags |-> tagList, err |-> "nil"]
    /\ UNCHANGED <<pendingDel, redis, file, fixedVars>>

\* BatchAddObjectsToTag, lines 207-210: the loop over the identifiers; it
\* returns the pair <<bitmap, allObjects>> it leaves.
RECURSIVE BatchAddObjectsLoop(_, _, _)
BatchAddObjectsLoop(bitmap, all, objectIDs) ==
    IF objectIDs = <<>>
    THEN <<bitmap, all>>
    ELSE BatchAddObjectsLoop(bitmap \cup {Head(objectIDs)},
                             all \cup {Head(objectIDs)},
                             Tail(objectIDs))

\* BatchAddObjectsToTag, lines 201-210: the tag map after the call.  The tag
\* is created before the loop, whatever the list holds.
BatchAddObjectsTags(m, all, objectIDs, tag) ==
    LET bitmap == IF tag \in DOMAIN m THEN m[tag] ELSE NewBitmap
    IN  MapPut(m, tag, BatchAddObjectsLoop(bitmap, all, objectIDs)[1])

BatchAddObjectsToTag(objectIDs, tag) ==
    /\ tags' = BatchAddObjectsTags(tags, allObjects, objectIDs, tag)
    /\ allObjects' = BatchAddObjectsLoop({}, allObjects, objectIDs)[2]
    /\ saveChan' = TriggerSave(saveChan)
    /\ ret' = [op |-> "BatchAddObjectsToTag", objectIDs |-> objectIDs, tag |-> tag,
               err |-> "nil"]
    /\ UNCHANGED <<pendingDel, redis, file, fixedVars>>

\* The goroutine `go ts.redis.Del(ts.ctx, key)` of RemoveTag runs: it takes no
\* lock and touches only the store.
DelGoroutine(key) ==
    /\ pendingDel[key] > 0
    /\ pendingDel' = [pendingDel EXCEPT ![key] = @ - 1]
    /\ redis' = MapDelete(redis, key)
    /\ UNCHANGED <<tags, allObjects, saveChan, file, ret, fixedVars>>

\* ----------------------------------------------------------------- lookups

\* HasTag, lines 227-232.
HasTagResult(m, objectID, tag) ==
    IF tag \notin DOMAIN m THEN FALSE ELSE objectID \in m[tag]

HasTag(objectID, tag) ==
    /\ ret' = [op |-> "HasTag", objectID |-> objectID, tag |-> tag,
               bool |-> HasTagResult(tags, objectID, tag)]
    /\ UNCHANGED <<tags, allObjects, saveChan, pendingDel, redis, file, fixedVars>>

\* GetObjectTags, lines 240-247: the names of the tags holding the object
\* (a slice in map-iteration order; modelled by the set of its elements).
GetObjectTagsResult(m, objectID) == {t \in DOMAIN m : objectID \in m[t]}

GetObjectTags(objectID) ==
    /\ ret' = [op |-> "GetObjectTags", objectID |-> objectID,
               names |-> GetObjectTagsResult(tags, objectID), err |-> "nil"]
    /\ UNCHANGED <<tags, allObjects, saveChan, pendingDel, redis, file, fixedVars>>

\* GetAllTags, lines 255-260.
GetAllTagsResult(m) == {t \in DOMAIN m : TRUE}

GetAllTags ==
    /\ ret' = [op |-> "GetAllTags", names |-> GetAllTagsResult(tags)]
    /\ UNCHANGED <<tags, allObjects, saveChan, pendingDel, redis, file, fixedVars>>

\* GetTagCount, lines 268-273.
GetTagCountResult(m, tag) ==
    IF tag \notin DOMAIN m THEN 0 ELSE Cardinality(m[tag])

GetTagCount(tag) ==
    /\ ret' = [op |-> "GetTagCount", tag |-> tag,
               count |-> GetTagCountResult(tags, tag), err |-> "nil"]
    /\ UNCHANGED <<tags, allObjects, saveChan, pendingDel, redis, file, fixedVars>>

\* All orders in which a `for ... range` loop may visit the keys of a map.
Orders(S) == {f \in [1..Cardinality(S) -> S] : \A i, j \in DOMAIN f : f[i] = f[j] => i = j}

\* GetStats, lines 286-298: the loop over the tags, visited in `order`.
\* (MemoryUsage, the bitmap library's size estimate, is not modelled.)
RECURSIVE GetStatsLoop(_, _, _, _)
GetStatsLoop(m, order, stats, maxCardinality) ==
    IF order = <<>>
    THEN stats
    ELSE LET tag == Head(order)
             cardinality == Cardinality(m[tag])
             counted == [stats EXCEPT !.TotalObjects = @ + cardinality]
         IN  IF cardinality > maxCardinality
             THEN GetStatsLoop(m, Tail(order),
                               [counted EXCEPT !.LargestTag = tag,
                                               !.LargestTagSize = cardinality],
                               cardinality)
             ELSE GetStatsLoop(m, Tail(order), counted, maxCardinality)

\* GetStats, lines 281-300.
GetStatsResult(m, all, order) ==
    GetStatsLoop(m, order,
                 [TotalTags |-> Cardinality(DOMAIN m), UniqueObjects |-> Cardinality(all),
                  TotalObjects |-> 0, LargestTag |-> "", LargestTagSize |-> 0],
                 0)

GetStats ==
    /\ \E order \in Orders(DOMAIN tags) :
          ret' = [op |-> "GetStats", stats |-> GetStatsResult(tags, allObjects, order)]
    /\ UNCHANGED <<tags, allObjects, saveChan, pendingDel, redis, file, fixedVars>>

\* ----------------------------------------------------------------- queries

\* Query, lines 716-721.
QueryResult(m, tag) ==
    IF tag \notin DOMAIN m THEN NewBitmap ELSE Clone(m[tag])

Query(tag) ==
    /\ ret' = [op |-> "Query", tag |-> tag, bitmap |-> QueryResult(tags, tag),
               err |-> "nil"]
    /\ UNCHANGED <<tags, allObjects, saveChan, pendingDel, redis, file, fixedVars>>

\* A plausible slip: the loop passes over a missing tag, as QueryOr does.
RECURSIVE QueryAndLoop_SkipsMissing(_, _, _)
QueryAndLoop_SkipsMissing(m, result, rest) ==
    IF rest = <<>>
    THEN result
    ELSE IF Head(rest) \notin DOMAIN m
         THEN QueryAndLoop_SkipsMissing(m, result, Tail(rest))
         ELSE QueryAndLoop_SkipsMissing(m, result \cap m[Head(rest)], Tail(rest))

\* QueryAnd / queryAndLocked, the loop `for _, tag := range tags[1:]`:
\* a missing tag returns a new empty bitmap, a present one is And-ed in.
RECURSIVE QueryAndLoop(_, _, _)
QueryAndLoop(m, result, rest) ==
    IF rest = <<>>
    THEN result
    ELSE IF Head(rest) \notin DOMAIN m
         THEN NewBitmap
         ELSE QueryAndLoop(m, result \cap m[Head(rest)], Tail(rest))

\* QueryAnd, lines 729-750 (queryAndLocked, lines 851-870, is the same code).
QueryAndResult(m, tagList) ==
    IF Len(tagList) = 0
    THEN NewBitmap
    ELSE IF tagList[1] \notin DOMAIN m
         THEN NewBitmap
         ELSE QueryAndLoop(m, Clone(m[tagList[1]]), Tail(tagList))

QueryAnd(tagList) ==
    /\ ret' = [op |-> "QueryAnd", tags |-> tagList,
               bitmap |-> QueryAndResult(tags, tagList), err |-> "nil"]
    /\ UNCHANGED <<tags, allObjects, saveChan, pendingDel, redis, file, fixedVars>>

\* A plausible slip: a missing tag ends the loop with an empty result, as in
\* QueryAnd.
RECURSIVE QueryOrLoop_MissingEmpties(_, _, _)
QueryOrLoop_MissingEmpties(m, result, rest) ==
    IF rest = <<>>
    THEN result
    ELSE IF Head(rest) \in DOMAIN m
         THEN QueryOrLoop_MissingEmpties(m, result \cup m[Head(rest)], Tail(rest))
         ELSE NewBitmap

\* QueryOr / queryOrLocked, the loop: a present tag is Or-ed in, a missing
\* one is passed over.
RECURSIVE QueryOrLoop(_, _, _)
QueryOrLoop(m, result, rest) ==
    IF rest = <<>>
    THEN result
    ELSE IF Head(rest) \in DOMAIN m
         THEN QueryOrLoop(m, result \cup m[Head(rest)], Tail(rest))
         ELSE QueryOrLoop(m, result, Tail(rest))

\* QueryOr, lines 758-767 (queryOrLocked, lines 876-885, is the same code).
QueryOrResult(m, tagList) == QueryOrLoop(m, NewBitmap, tagList)

QueryOr(tagList) ==
    /\ ret' = [op |-> "QueryOr", tags |-> tagList,
               bitmap |-> QueryOrResult(tags, tagList), err |-> "nil"]
    /\ UNCHANGED <<tags, allObjects, saveChan, pendingDel, redis, file, fixedVars>>

\* A plausible slip: AndNot is applied to the caller's bitmap, not to a clone.
QueryNotResult_NoClone(m, tag, universe) ==
    IF tag \notin DOMAIN m
    THEN [bitmap |-> Clone(universe), universe |-> universe]
    ELSE [bitmap |-> universe \ m[tag], universe |-> universe \ m[tag]]

\* QueryNot, lines 776-784: the bitmap returned and the caller's universe
\* bitmap as the call leaves it.  The code clones the universe and applies
\* AndNot to the clone.
QueryNotResult(m, tag, universe) ==
    IF tag \notin DOMAIN m
    THEN [bitmap |-> Clone(universe), universe |-> universe]
    ELSE LET result == Clone(universe)
         IN  [bitmap |-> result \ m[tag], universe |-> universe]

QueryNot(tag, universe) ==
    /\ LET r == QueryNotResult(tags, tag, universe)
       IN  ret' = [op |-> "QueryNot", tag |-> tag, universe |-> universe,
                   universeAfter |-> r.universe, bitmap |-> r.bitmap, err |-> "nil"]
    /\ UNCHANGED <<tags, allObjects, saveChan, pendingDel, redis, file, fixedVars>>

\* queryNotLocked, lines 890-899.
QueryNotLockedResult(m, all, tag) ==
    IF tag \notin DOMAIN m THEN Clone(all) ELSE Clone(all) \ m[tag]

\* QueryNotInSystem, lines 789-794, called with no other thread running:
\* clone allObjects under one read lock, then QueryNot under another.
QueryNotInSystem(tag) ==
    /\ LET allObjectsClone == Clone(allObjects)
       IN  ret' = [op |-> "QueryNotInSystem", tag |-> tag,
                   bitmap |-> QueryNotResult(tags, tag, allObjectsClone).bitmap,
                   err |-> "nil"]
    /\ UNCHANGED <<tags, allObjects, saveChan, pendingDel, redis, file, fixedVars>>

\* A plausible slip: a missing second tag gives an empty result, as a missing
\* first tag does.
QueryDifferenceResult_MissingEmpties(m, tag1, tag2) ==
    IF tag1 \notin DOMAIN m \/ tag2 \notin DOMAIN m
    THEN NewBitmap
    ELSE Clone(m[tag1]) \ m[tag2]

\* QueryDifference, lines 906-920.
QueryDifferenceResult(m, tag1, tag2) ==
    IF tag1 \notin DOMAIN m
    THEN NewBitmap
    ELSE IF tag2 \notin DOMAIN m
         THEN Clone(m[tag1])
         ELSE Clone(m[tag1]) \ m[tag2]

QueryDifference(tag1, tag2) ==
    /\ ret' = [op |-> "QueryDifference", tag1 |-> tag1, tag2 |-> tag2,
               bitmap |-> QueryDifferenceResult(tags, tag1, tag2), err |-> "nil"]
    /\ UNCHANGED <<tags, allObjects, saveChan, pendingDel, redis, file, fixedVars>>

\* bitmap.Xor(other): the identifiers in exactly one of the two.
Xor(b1, b2) == (b1 \ b2) \cup (b2 \ b1)

\* QueryXor, lines 927-944.
QueryXorResult(m, tag1, tag2) ==
    IF tag1 \notin DOMAIN m /\ tag2 \notin DOMAIN m
    THEN NewBitmap
    ELSE IF tag1 \notin DOMAIN m
         THEN Clone(m[tag2])
         ELSE IF tag2 \notin DOMAIN m
              THEN Clone(m[tag1])
              ELSE Xor(Clone(m[tag1]), m[tag2])

QueryXor(tag1, tag2) ==
    /\ ret' = [op |-> "QueryXor", tag1 |-> tag1, tag2 |-> tag2,
               bitmap |-> QueryXorResult(tags, tag1, tag2), err |-> "nil"]
    /\ UNCHANGED <<tags, allObjects, saveChan, pendingDel, redis, file, fixedVars>>

\* queryAndLocked, lines 861-867: the loop over tags[1:].
RECURSIVE queryAndLockedLoop(_, _, _)
queryAndLockedLoop(m, result, rest) ==
    IF Len(rest) = 0 THEN result
    ELSE IF Head(rest) \notin DOMAIN m THEN NewBitmap
    ELSE queryAndLockedLoop(m, result \cap m[Head(rest)], Tail(rest))

\* queryAndLocked, lines 849-870.
queryAndLocked(m, tagList) ==
    IF Len(tagList) = 0 THEN NewBitmap
    ELSE IF tagList[1] \notin DOMAIN m THEN NewBitmap
    ELSE queryAndLockedLoop(m, Clone(m[tagList[1]]), Tail(tagList))

\* queryOrLocked, lines 877-882: the loop over tags.
RECURSIVE queryOrLockedLoop(_, _, _)
queryOrLockedLoop(m, result, rest) ==
    IF Len(rest) = 0 THEN result
    ELSE queryOrLockedLoop(m,
                           IF Head(rest) \in DOMAIN m THEN result \cup m[Head(rest)]
                                                      ELSE result,
                           Tail(rest))

\* queryOrLocked, lines 874-885.
queryOrLocked(m, tagList) == queryOrLockedLoop(m, NewBitmap, tagList)

\* A plausible slip: a NOT op with the wrong number of tags is passed over
\* with an empty partial result instead of being rejected.
ComplexPartial_LenientNot(m, all, qop) ==
    CASE qop.Type = "AND" -> [err |-> "nil", bitmap |-> queryAndLocked(m, qop.Tags)]
      [] qop.Type = "OR"  -> [err |-> "nil", bitmap |-> queryOrLocked(m, qop.Tags)]
      [] qop.Type = "NOT" ->
            IF Len(qop.Tags) # 1
            THEN [err |-> "nil", bitmap |-> {}]
            ELSE [err |-> "nil", bitmap |-> QueryNotLockedResult(m, all, qop.Tags[1])]
      [] OTHER -> [err |-> "unknown operation", bitmap |-> {}]

\* ComplexQuery, lines 817-829: one op's partial result, or the error that
\* makes the call return.
ComplexPartial(m, all, qop) ==
    CASE qop.Type = "AND" -> [err |-> "nil", bitmap |-> queryAndLocked(m, qop.Tags)]
      [] qop.Type = "OR"  -> [err |-> "nil", bitmap |-> queryOrLocked(m, qop.Tags)]
      [] qop.Type = "NOT" ->
            IF Len(qop.Tags) # 1
            THEN [err |-> "NOT operation requires exactly one tag", bitmap |-> {}]
            ELSE [err |-> "nil", bitmap |-> QueryNotLockedResult(m, all, qop.Tags[1])]
      [] OTHER -> [err |-> "unknown operation", bitmap |-> {}]

\* A plausible slip: the partial results are combined by union, as the doc
\* comment of ComplexQuery describes.
RECURSIVE ComplexQueryLoop_Union(_, _, _, _, _)
ComplexQueryLoop_Union(m, all, ops, i, result) ==
    IF i > Len(ops)
    THEN [err |-> "nil", isNil |-> FALSE, bitmap |-> result]
    ELSE LET partial == ComplexPartial(m, all, ops[i])
         IN  IF partial.err # "nil"
             THEN [err |-> partial.err, isNil |-> TRUE, bitmap |-> {}]
             ELSE ComplexQueryLoop_Union(m, all, ops, i + 1,
                                         IF i = 1 THEN partial.bitmap
                                                  ELSE result \cup partial.bitmap)

\* ComplexQuery, lines 813-842: the loop over ops[i..]; `result` is the
\* bitmap built from the ops before i.
RECURSIVE ComplexQueryLoop(_, _, _, _, _)
ComplexQueryLoop(m, all, ops, i, result) ==
    IF i > Len(ops)
    THEN [err |-> "nil", isNil |-> FALSE, bitmap |-> result]
    ELSE LET partial == ComplexPartial(m, all, ops[i])
         IN  IF partial.err # "nil"
             THEN [err |-> partial.err, isNil |-> TRUE, bitmap |-> {}]
             ELSE ComplexQueryLoop(m, all, ops, i + 1,
                                   IF i = 1 THEN partial.bitmap
                                            ELSE result \cap partial.bitmap)

\* ComplexQuery, lines 803-845.
ComplexQueryResult(m, all, ops) ==
    IF Len(ops) = 0
    THEN [err |-> "nil", isNil |-> FALSE, bitmap |-> NewBitmap]
    ELSE ComplexQueryLoop(m, all, ops, 1, {})

ComplexQuery(ops) ==
    /\ LET r == ComplexQueryResult(tags, allObjects, ops)
       IN  ret' = [op |-> "ComplexQuery", ops |-> ops, bitmap |-> r.bitmap,
                   isNil |-> r.isNil, err |-> r.err]
    /\ UNCHANGED <<tags, allObjects, saveChan, pendingDel, redis, file, fixedVars>>

\* A plausible slip: the bitmap itself is handed out where the code clones.
CloneShares_Same(name) == {name}

\* bitmap.Clone(): the bitmaps of the index whose storage the clone of the
\* bitmap `name` shares: none.
CloneShares(name) == {}

\* The bitmaps of the index ("allObjects", or a tag's) whose storage the
\* bitmap returned by a query shares, by the return statement taken; r is
\* what the query returned.
ResultShares(m, r) ==
    CASE r.op = "Query" ->
            IF r.tag \in DOMAIN m THEN CloneShares(r.tag) ELSE {}
      [] r.op = "QueryAnd" ->
            IF Len(r.tags) > 0 /\ \A i \in DOMAIN r.tags : r.tags[i] \in DOMAIN m
            THEN CloneShares(r.tags[1]) ELSE {}
      [] r.op = "QueryNotInSystem" -> CloneShares("allObjects")
      [] r.op = "QueryDifference" ->
            IF r.tag1 \in DOMAIN m THEN CloneShares(r.tag1) ELSE {}
      [] r.op = "QueryXor" ->
            IF r.tag1 \in DOMAIN m THEN CloneShares(r.tag1)
            ELSE IF r.tag2 \in DOMAIN m THEN CloneShares(r.tag2) ELSE {}
      [] r.op = "ComplexQuery" ->
            IF r.isNil \/ Len(r.ops) = 0 THEN {}
            ELSE IF r.ops[1].Type = "NOT" THEN CloneShares("allObjects")
            ELSE IF /\ r.ops[1].Type = "AND"
                    /\ Len(r.ops[1].Tags) > 0
                    /\ \A i \in DOMAIN r.ops[1].Tags : r.ops[1].Tags[i] \in DOMAIN m
                 THEN CloneShares(r.ops[1].Tags[1]) ELSE {}
      [] OTHER -> {}

\* The caller adds objectID to the bitmap the last query returned to it.
CallerChangesResult(objectID) ==
    /\ ret.op \in {"Query", "QueryAnd", "QueryOr", "QueryNot", "QueryNotInSystem",
                   "QueryDifference", "QueryXor", "ComplexQuery"}
    /\ ret.err = "nil"
    /\ tags' = [t \in DOMAIN tags |->
                   IF t \in ResultShares(tags, ret) THEN tags[t] \cup {objectID} ELSE tags[t]]
    /\ allObjects' = IF "allObjects" \in ResultShares(tags, ret)
                     THEN allObjects \cup {objectID} ELSE allObjects
    /\ ret' = [op |-> "CallerChange", from |-> ret.op, before |-> ret.bitmap,
               bitmap |-> ret.bitmap \cup {objectID}]
    /\ UNCHANGED <<saveChan, pendingDel, redis, file, fixedVars>>

\* ----------------------------------------------------------- serialization

\* The identifiers of a bitmap in ascending order.
SortedSeq(b) ==
    CHOOSE f \in [1..Cardinality(b) -> b] :
        \A i, j \in 1..Cardinality(b) : i < j => f[i] < f[j]

\* bitmap.WriteTo(&buf): the serialized bytes, modelled as the number of
\* identifiers followed by the identifiers in ascending order.
Serialize(b) == <<Cardinality(b)>> \o SortedSeq(b)

\* Whether bitmap.ReadFrom accepts the bytes: the count is there, as many
\* identifiers as it announces follow, and they ascend.
WellFormed(bytes) ==
    /\ Len(bytes) >= 1
    /\ bytes[1] = Len(bytes) - 1
    /\ \A i \in 2..(Len(bytes) - 1) : bytes[i] < bytes[i + 1]

Deserialize_SkipsFirst(bytes) == {bytes[i] : i \in 3..Len(bytes)}

\* bitmap.ReadFrom(bytes.NewReader(data)) on well-formed bytes.
Deserialize(bytes) == {bytes[i] : i \in 2..Len(bytes)}

\* Bytes ReadFrom rejects: an empty value, and a truncated one.
CorruptValues == {<<>>, <<2, 1>>}

\* --------------------------------------------------------- Redis durability

\* The keys `Scan(ctx, 0, KeyPrefix+"*", 0)` matches.
HasPrefix(key) ==
    Len(key) >= Len(KeyPrefix) /\ SubSeq(key, 1, Len(KeyPrefix)) = KeyPrefix

\* key[len(ts.config.KeyPrefix):]
TagOfKey(key) == SubSeq(key, Len(KeyPrefix) + 1, Len(key))

SaveToRedisStore_StopsAtFailure(store, m, failing) ==
    IF DOMAIN m \cap failing # {}
    THEN store
    ELSE [k \in (DOMAIN store) \cup {Key(t) : t \in DOMAIN m} |->
            IF \E t \in DOMAIN m : Key(t) = k
            THEN Serialize(m[CHOOSE t \in DOMAIN m : Key(t) = k])
            ELSE store[k]]

\* SaveToRedis, lines 41-45 with saveTagToRedis, lines 57-65: the store after
\* the pass, when the Set calls of the tags in `failing` fail.
SaveToRedisStore(store, m, failing) ==
    LET written == {t \in DOMAIN m : t \notin failing}
    IN  [k \in (DOMAIN store) \cup {Key(t) : t \in written} |->
            IF \E t \in written : Key(t) = k
            THEN Serialize(m[CHOOSE t \in written : Key(t) = k])
            ELSE store[k]]

\* What SaveToRedis returns, lines 47-51.
SaveToRedisErr(m, failing) ==
    IF Cardinality({t \in DOMAIN m : t \in failing}) > 0
    THEN "save completed with errors"
    ELSE "nil"

SaveToRedis(failing) ==
    /\ redis' = SaveToRedisStore(redis, tags, failing)
    /\ ret' = [op |-> "SaveToRedis", failed |-> {t \in DOMAIN tags : t \in failing},
               err |-> SaveToRedisErr(tags, failing)]
    /\ UNCHANGED <<tags, allObjects, saveChan, pendingDel, file, fixedVars>>

\* SaveTagToRedis, lines 70-78, called with no other thread running.
SaveTagToRedis(tag, setFails) ==
    /\ IF tag \notin DOMAIN tags
       THEN /\ ret' = [op |-> "SaveTagToRedis", tag |-> tag, err |-> "tag not found"]
            /\ UNCHANGED redis
       ELSE IF setFails
            THEN /\ ret' = [op |-> "SaveTagToRedis", tag |-> tag, err |-> "redis error"]
                 /\ UNCHANGED redis
            ELSE /\ ret' = [op |-> "SaveTagToRedis", tag |-> tag, err |-> "nil"]
                 /\ redis' = MapPut(redis, Key(tag), Serialize(tags[tag]))
    /\ UNCHANGED <<tags, allObjects, saveChan, pendingDel, file, fixedVars>>

\* LoadTagFromRedis, lines 83-96: the error the call returns before it takes
\* the lock, or "nil".
LoadTagErr(store, tag, getFails) ==
    IF getFails THEN "redis error"
    ELSE IF Key(tag) \notin DOMAIN store THEN "tag not found"
    ELSE IF ~WellFormed(store[Key(tag)]) THEN "deserialization failed"
    ELSE "nil"

\* LoadTagFromRedis, lines 98-101: the loaded bitmap takes the tag's place
\* in the map and is Or-ed into allObjects.
LoadTagFromRedis(tag, getFails) ==
    /\ LET err == LoadTagErr(redis, tag, getFails)
       IN  /\ ret' = [op |-> "LoadTagFromRedis", tag |-> tag, err |-> err]
           /\ IF err = "nil"
              THEN /\ tags' = MapPut(tags, tag, Deserialize(redis[Key(tag)]))
                   /\ allObjects' = BitmapOr(allObjects, Deserialize(redis[Key(tag)]))
              ELSE UNCHANGED <<tags, allObjects>>
    /\ UNCHANGED <<saveChan, pendingDel, redis, file, fixedVars>>

RecoverKeys_KeepsMeta(store) == {k \in DOMAIN store : HasPrefix(k)}

\* RecoverFromRedis, lines 70-79: the keys kept from the scan.
RecoverKeys(store) == {k \in DOMAIN store : HasPrefix(k) /\ k # MetaKey}

\* RecoverFromRedis, lines 87-107: the loop over the scanned keys; st is
\* [tags, all, errs].
RECURSIVE RecoverLoop(_, _, _, _)
RecoverLoop(st, store, keys, failing) ==
    IF keys = <<>>
    THEN st
    ELSE LET key == Head(keys)
             tag == TagOfKey(key)
         IN  IF key \in failing
             THEN RecoverLoop([st EXCEPT !.errs = @ \cup {tag}], store, Tail(keys), failing)
             ELSE IF key \notin DOMAIN store
             THEN RecoverLoop(st, store, Tail(keys), failing)
             ELSE IF ~WellFormed(store[key])
             THEN RecoverLoop([st EXCEPT !.errs = @ \cup {tag}], store, Tail(keys), failing)
             ELSE RecoverLoop([st EXCEPT !.tags = MapPut(@, tag, Deserialize(store[key])),
                                         !.all = BitmapOr(@, Deserialize(store[key]))],
                              store, Tail(keys), failing)

\* RecoverFromRedis, lines 65-114.  scanFails: the scan iterator reports an
\* error; failing: the keys whose Get fails.
RecoverFromRedis(scanFails, failing) ==
    /\ IF scanFails
       THEN /\ ret' = [op |-> "RecoverFromRedis", failed |-> {}, err |-> "redis scan failed"]
            /\ UNCHANGED <<tags, allObjects>>
       ELSE \E keys \in Orders(RecoverKeys(redis)) :
               LET st == RecoverLoop([tags |-> tags, all |-> allObjects, errs |-> {}],
                                     redis, keys, failing)
               IN  /\ tags' = st.tags
                   /\ allObjects' = st.all
                   /\ ret' = [op |-> "RecoverFromRedis", failed |-> st.errs,
                              err |-> IF Cardinality(st.errs) > 0
                                      THEN "recover completed with errors"
                                      ELSE "nil"]
    /\ UNCHANGED <<saveChan, pendingDel, redis, file, fixedVars>>

\* Another writer of the store (an earlier run, another program) sets a key.
ExternalSet(key, bytes) ==
    /\ redis' = MapPut(redis, key, bytes)
    /\ UNCHANGED <<tags, allObjects, saveChan, pendingDel, file, ret, fixedVars>>

\* Close, lines 304-318: the final SaveToRedis, whose Set calls fail for the
\* tags in `failing` (all of them on a connection already closed), and
\* ts.redis.Close() when that pass returned no error.  (StartSnapshot was
\* not called: ts.snapshotTicker is nil.)
Close(failing) ==
    /\ conn = "closed" => DOMAIN tags \subseteq failing
    /\ redis' = SaveToRedisStore(redis, tags, failing)
    /\ IF SaveToRedisErr(tags, failing) # "nil"
       THEN /\ ret' = [op |-> "Close", err |-> "save to redis failed"]
            /\ UNCHANGED conn
       ELSE /\ ret' = [op |-> "Close",
                       err |-> IF conn = "closed" THEN "client is closed" ELSE "nil"]
            /\ conn' = "closed"
    /\ UNCHANGED <<tags, allObjects, autoSave, saveChan, pendingDel, lastTrigger, ticks,
                   passes, file, mu, pc, loc>>

\* New, lines 34-61, on a configuration of its own (DefaultConfig makes a new
\* SaveChan) while the store and the snapshot file stay what they are: the
\* program is started again, or a second index is built on the same store.
New ==
    /\ tags' = EmptyMap
    /\ allObjects' = NewBitmap
    /\ saveChan' = 0
    /\ conn' = "open"
    /\ lastTrigger' = -1
    /\ ticks' = 0
    /\ passes' = 0
    /\ ret' = [op |-> "New"]
    /\ UNCHANGED <<autoSave, pendingDel, redis, file, mu, pc, loc>>

SaveWorkerTick_PassesUntriggered(short, failing) ==
    /\ autoSave
    /\ ticks < MaxTicks
    /\ ticks' = ticks + 1
    /\ IF saveChan > 0
       THEN /\ saveChan' = saveChan - 1
            /\ lastTrigger' = 0
            /\ UNCHANGED <<redis, passes>>
       ELSE /\ redis' = SaveToRedisStore(redis, tags, failing)
            /\ passes' = passes + 1
            /\ lastTrigger' = -1
            /\ UNCHANGED saveChan
    /\ UNCHANGED <<tags, allObjects, autoSave, conn, pendingDel, file, mu, pc, loc, ret>>

SaveWorkerTick_NoPass(short, failing) ==
    /\ autoSave
    /\ ticks < MaxTicks
    /\ ticks' = ticks + 1
    /\ IF saveChan > 0
       THEN /\ saveChan' = saveChan - 1
            /\ lastTrigger' = 0
            /\ UNCHANGED <<redis, passes>>
       ELSE /\ lastTrigger' = IF lastTrigger = -1 \/ lastTrigger >= 1 THEN -1 ELSE lastTrigger + 1
            /\ UNCHANGED <<saveChan, redis, passes>>
    /\ UNCHANGED <<tags, allObjects, autoSave, conn, pendingDel, file, mu, pc, loc, ret>>

SaveWorkerTick_DrainsAll(short, failing) ==
    /\ autoSave
    /\ ticks < MaxTicks
    /\ ticks' = ticks + 1
    /\ IF saveChan > 0
       THEN /\ saveChan' = 0
            /\ lastTrigger' = 0
            /\ UNCHANGED <<redis, passes>>
       ELSE IF lastTrigger # -1 /\ (lastTrigger + 1 >= 2 \/ ~short)
       THEN /\ redis' = SaveToRedisStore(redis, tags, failing)
            /\ passes' = passes + 1
            /\ lastTrigger' = -1
            /\ UNCHANGED saveChan
       ELSE /\ lastTrigger' = IF lastTrigger = -1 THEN -1 ELSE lastTrigger + 1
            /\ UNCHANGED <<saveChan, redis, passes>>
    /\ UNCHANGED <<tags, allObjects, autoSave, conn, pendingDel, file, mu, pc, loc, ret>>

\* saveWorker, redis.go lines 13-32: one iteration of `for range ticker.C`.
\* With a signal in SaveChan the worker takes one and sets lastTrigger to
\* now.  With none, and lastTrigger set, it compares time.Since(lastTrigger)
\* with one second: two ticks or more after lastTrigger was set that is
\* true; one tick after, the two instants are one ticker period apart give or
\* take the scheduling delay of each, and `short` says the difference came
\* out under a second.  The pass is SaveToRedis, whose Set calls fail for
\* the tags in `failing` and whose error the worker drops.
SaveWorkerTick(short, failing) ==
    /\ autoSave
    /\ ticks < MaxTicks
    /\ ticks' = ticks + 1
    /\ IF saveChan > 0
       THEN /\ saveChan' = saveChan - 1
            /\ lastTrigger' = 0
            /\ UNCHANGED <<redis, passes>>
       ELSE IF lastTrigger # -1 /\ (lastTrigger + 1 >= 2 \/ ~short)
       THEN /\ redis' = SaveToRedisStore(redis, tags, failing)
            /\ passes' = passes + 1
            /\ lastTrigger' = -1
            /\ UNCHANGED saveChan
       ELSE /\ lastTrigger' = IF lastTrigger = -1 THEN -1 ELSE lastTrigger + 1
            /\ UNCHANGED <<saveChan, redis, passes>>
    /\ UNCHANGED <<tags, allObjects, autoSave, conn, pendingDel, file, mu, pc, loc, ret>>

\* ------------------------------------------------------------ snapshot file

\* SaveSnapshot, lines 354-362: the map of serialized bitmaps.
SnapshotData(m) == [t \in DOMAIN m |-> Serialize(m[t])]

\* SaveSnapshot, lines 350-370.  outcome: os.WriteFile succeeds ("ok"), fails
\* to open the file ("open"), or fails after truncating it ("write").
SaveSnapshot(outcome) ==
    /\ file' = CASE outcome = "ok" ->
                      [exists |-> TRUE, json |-> TRUE, data |-> SnapshotData(tags)]
                 [] outcome = "open" -> file
                 [] OTHER ->
                      [exists |-> TRUE, json |-> FALSE, data |-> [t \in {} |-> <<>>]]
    /\ ret' = [op |-> "SaveSnapshot", err |-> IF outcome = "ok" THEN "nil" ELSE "write failed"]
    /\ UNCHANGED <<tags, allObjects, saveChan, pendingDel, redis, fixedVars>>

\* LoadSnapshot, lines 387-394: the loop over the entries of the file, in
\* map-iteration order; the first entry ReadFrom rejects ends the call.
\* st is [tags, all, err].
RECURSIVE LoadSnapshotLoop(_, _, _)
LoadSnapshotLoop(st, data, order) ==
    IF order = <<>>
    THEN st
    ELSE LET tag == Head(order)
         IN  IF ~WellFormed(data[tag])
             THEN [st EXCEPT !.err = "load tag failed", !.failed = {tag}]
             ELSE LoadSnapshotLoop([st EXCEPT !.tags = MapPut(@, tag, Deserialize(data[tag])),
                                              !.all = BitmapOr(@, Deserialize(data[tag]))],
                                   data, Tail(order))

\* LoadSnapshot, lines 373-397.
LoadSnapshot ==
    /\ IF ~file.exists
       THEN /\ ret' = [op |-> "LoadSnapshot", failed |-> {}, err |-> "read failed"]
            /\ UNCHANGED <<tags, allObjects>>
       ELSE IF ~file.json
       THEN /\ ret' = [op |-> "LoadSnapshot", failed |-> {}, err |-> "unmarshal failed"]
            /\ UNCHANGED <<tags, allObjects>>
       ELSE \E order \in Orders(DOMAIN file.data) :
               LET st == LoadSnapshotLoop([tags |-> tags, all |-> allObjects,
                                           err |-> "nil", failed |-> {}],
                                          file.data, order)
               IN  /\ tags' = st.tags
                   /\ allObjects' = st.all
                   /\ ret' = [op |-> "LoadSnapshot", failed |-> st.failed, err |-> st.err]
    /\ UNCHANGED <<saveChan, pendingDel, redis, file, fixedVars>>

\* The bytes of one entry of the snapshot file are damaged on disk.
DamageFile(tag, bytes) ==
    /\ file.exists /\ file.json /\ tag \in DOMAIN file.data
    /\ file' = [file EXCEPT !.data[tag] = bytes]
    /\ UNCHANGED <<tags, allObjects, saveChan, pendingDel, redis, ret, fixedVars>>

\* ------------------------------------------------------------ initial state

\* The file at the snapshot path does not exist.
NoFile == [exists |-> FALSE, json |-> FALSE, data |-> [t \in {} |-> <<>>]]

\* A thread that is in no call has no locals; j counts the calls a test
\* goroutine has started.
NoLocals == [op |-> "none", j |-> 0]

\* New(config): empty tag map, empty allObjects; nothing is queued.
InitIndex ==
    /\ tags = EmptyMap
    /\ allObjects = NewBitmap
    /\ saveChan = 0
    /\ pendingDel = [k \in Keys |-> 0]
    /\ redis = [k \in {} |-> <<>>]
    /\ conn = "open"
    /\ lastTrigger = -1
    /\ ticks = 0
    /\ passes = 0
    /\ file = NoFile
    /\ mu = [w |-> 0, r |-> {}]
    /\ pc = [th \in Threads |-> "idle"]
    /\ loc = [th \in Threads |-> NoLocals]
    /\ ret = [op |-> "New"]

\* ------------------------------------------------------------------ threads
(***************************************************************************)
(* The same calls made by several threads, one step at a time.  Each step  *)
(* is one acquisition or release of ts.mu, or one access to the tag map,   *)
(* to a bitmap or to allObjects; bitmap.Add is a read of the bitmap        *)
(* followed by a write, as it is for the memory it works on.  pc[th] names *)
(* the step thread th executes next.                                       *)
(***************************************************************************)

\* A plausible slip: Lock does not wait for the other holders.
CanLock_NoExclusion(m) == TRUE

\* ts.mu.Lock() may return: nobody holds the lock.
CanLock(m) == m.w = 0 /\ Cardinality(m.r) = 0

\* ts.mu.RLock() may return: no writer holds the lock.
CanRLock(m) == m.w = 0

\* ts.mu.Lock()
Lock(th) == CanLock(mu) /\ mu' = [mu EXCEPT !.w = th]

\* ts.mu.Unlock(); a thread that does not hold the lock leaves it as it is.
Unlocked(m, th) == IF m.w = th THEN [m EXCEPT !.w = 0] ELSE m

\* ts.mu.RLock()
RLock(th) == CanRLock(mu) /\ mu' = [mu EXCEPT !.r = @ \cup {th}]

\* ts.mu.RUnlock()
RUnlocked(m, th) == [m EXCEPT !.r = @ \ {th}]

\* Thread th moves to step `label` with locals l.
Goto(th, label, l) ==
    /\ pc' = [pc EXCEPT ![th] = label]
    /\ loc' = [loc EXCEPT ![th] = l]

\* Thread th returns from its call.
Return(th) == Goto(th, "idle", [op |-> "none", j |-> loc[th].j])

\* The bitmap a thread's local pointer refers to: the one the tag map holds
\* for the tag, or, once the map has dropped that bitmap, the bitmap as it
\* was dropped.
PointedBitmap(l) == IF l.attached THEN tags[l.tag] ELSE l.content

\* The map drops the bitmap it holds for `tag` (delete, or a new bitmap put
\* in its place): the pointers other threads hold still refer to it.
Detached(locals, tag, m) ==
    [th \in DOMAIN locals |->
        IF locals[th].op = "SaveTagToRedis" /\ locals[th].attached /\ locals[th].tag = tag
        THEN [locals[th] EXCEPT !.attached = FALSE, !.content = m[tag]]
        ELSE locals[th]]

\* ---- AddTag, lines 119-142

T_AddTagCall(th, objectID, tag) ==
    /\ pc[th] = "idle"
    /\ Goto(th, "add_lock", [op |-> "AddTag", objectID |-> objectID, tag |-> tag,
                             seen |-> {}, j |-> loc[th].j])
    /\ UNCHANGED <<tags, allObjects, autoSave, conn, lastTrigger, ticks, passes,
                 saveChan, pendingDel, redis, file, mu, ret>>

\* line 120
T_AddTagLock(th) ==
    /\ pc[th] = "add_lock"
    /\ Lock(th)
    /\ Goto(th, "add_lookup", loc[th])
    /\ UNCHANGED <<tags, allObjects, autoSave, conn, lastTrigger, ticks, passes,
                 saveChan, pendingDel, redis, file, ret>>

\* lines 123-127
T_AddTagLookup(th) ==
    /\ pc[th] = "add_lookup"
    /\ tags' = IF loc[th].tag \in DOMAIN tags THEN tags
               ELSE MapPut(tags, loc[th].tag, NewBitmap)
    /\ Goto(th, "add_read", loc[th])
    /\ UNCHANGED <<allObjects, autoSave, conn, lastTrigger, ticks, passes, saveChan,
                 pendingDel, redis, file, mu, ret>>

\* line 129, bitmap.Add: read the bitmap
T_AddTagRead(th) ==
    /\ pc[th] = "add_read"
    /\ Goto(th, "add_write", [loc[th] EXCEPT !.seen = SetOfTag(tags, loc[th].tag)])
    /\ UNCHANGED <<tags, allObjects, autoSave, conn, lastTrigger, ticks, passes,
                 saveChan, pendingDel, redis, file, mu, ret>>

\* line 129, bitmap.Add: write it back with objectID in it
T_AddTagWrite(th) ==
    /\ pc[th] = "add_write"
    /\ tags' = MapPut(tags, loc[th].tag, loc[th].seen \cup {loc[th].objectID})
    /\ Goto(th, "add_all", loc[th])
    /\ UNCHANGED <<allObjects, autoSave, conn, lastTrigger, ticks, passes, saveChan,
                 pendingDel, redis, file, mu, ret>>

\* line 130
T_AddTagAll(th) ==
    /\ pc[th] = "add_all"
    /\ allObjects' = allObjects \cup {loc[th].objectID}
    /\ Goto(th, "add_unlock", loc[th])
    /\ UNCHANGED <<tags, autoSave, conn, lastTrigger, ticks, passes, saveChan,
                 pendingDel, redis, file, mu, ret>>

\* lines 133-141 and the deferred Unlock
T_AddTagUnlock(th) ==
    /\ pc[th] = "add_unlock"
    /\ saveChan' = TriggerSave(saveChan)
    /\ mu' = Unlocked(mu, th)
    /\ ret' = [op |-> "AddTag", objectID |-> loc[th].objectID, tag |-> loc[th].tag,
               err |-> "nil"]
    /\ Return(th)
    /\ UNCHANGED <<tags, allObjects, autoSave, conn, lastTrigger, ticks, passes,
                 pendingDel, redis, file>>

T_AddTagStep(th) ==
    \/ T_AddTagLock(th)
    \/ T_AddTagLookup(th)
    \/ T_AddTagRead(th)
    \/ T_AddTagWrite(th)
    \/ T_AddTagAll(th)
    \/ T_AddTagUnlock(th)

\* ---- RemoveTag, lines 145-168

T_RemoveTagCall(th, objectID, tag) ==
    /\ pc[th] = "idle"
    /\ Goto(th, "rm_lock", [op |-> "RemoveTag", objectID |-> objectID, tag |-> tag,
                            j |-> loc[th].j])
    /\ UNCHANGED <<tags, allObjects, autoSave, conn, lastTrigger, ticks, passes,
                 saveChan, pendingDel, redis, file, mu, ret>>

\* line 146
T_RemoveTagLock(th) ==
    /\ pc[th] = "rm_lock"
    /\ Lock(th)
    /\ Goto(th, "rm_lookup", loc[th])
    /\ UNCHANGED <<tags, allObjects, autoSave, conn, lastTrigger, ticks, passes,
                 saveChan, pendingDel, redis, file, ret>>

\* lines 149-152: an absent tag goes straight to the return
T_RemoveTagLookup(th) ==
    /\ pc[th] = "rm_lookup"
    /\ Goto(th, IF loc[th].tag \in DOMAIN tags THEN "rm_remove" ELSE "rm_unlock", loc[th])
    /\ UNCHANGED <<tags, allObjects, autoSave, conn, lastTrigger, ticks, passes,
                 saveChan, pendingDel, redis, file, mu, ret>>

\* line 154
T_RemoveTagRemove(th) ==
    /\ pc[th] = "rm_remove"
    /\ tags' = MapPut(tags, loc[th].tag, SetOfTag(tags, loc[th].tag) \ {loc[th].objectID})
    /\ Goto(th, "rm_check", loc[th])
    /\ UNCHANGED <<allObjects, autoSave, conn, lastTrigger, ticks, passes, saveChan,
                 pendingDel, redis, file, mu, ret>>

\* lines 157-165; the next step is the return, so the locals of the thread
\* itself are set by T_RemoveTagUnlock
T_RemoveTagCheck(th) ==
    /\ pc[th] = "rm_check"
    /\ IF Cardinality(SetOfTag(tags, loc[th].tag)) = 0
       THEN /\ tags' = MapDelete(tags, loc[th].tag)
            /\ pendingDel' = SpawnDel(pendingDel, Key(loc[th].tag))
            /\ loc' = IF loc[th].tag \in DOMAIN tags
                      THEN Detached(loc, loc[th].tag, tags)
                      ELSE loc
            /\ UNCHANGED saveChan
       ELSE /\ saveChan' = TriggerSave(saveChan)
            /\ UNCHANGED <<tags, pendingDel, loc>>
    /\ pc' = [pc EXCEPT ![th] = "rm_unlock"]
    /\ UNCHANGED <<allObjects, autoSave, conn, lastTrigger, ticks, passes, redis,
                 file, mu, ret>>

\* line 167 and the deferred Unlock
T_RemoveTagUnlock(th) ==
    /\ pc[th] = "rm_unlock"
    /\ mu' = Unlocked(mu, th)
    /\ ret' = [op |-> "RemoveTag", objectID |-> loc[th].objectID, tag |-> loc[th].tag,
               err |-> "nil"]
    /\ Return(th)
    /\ UNCHANGED <<tags, allObjects, autoSave, conn, lastTrigger, ticks, passes,
                 saveChan, pendingDel, redis, file>>

T_RemoveTagStep(th) ==
    \/ T_RemoveTagLock(th)
    \/ T_RemoveTagLookup(th)
    \/ T_RemoveTagRemove(th)
    \/ T_RemoveTagCheck(th)
    \/ T_RemoveTagUnlock(th)

\* ---- BatchAddTags, lines 171-194

T_BatchAddTagsCall(th, objectID, tagList) ==
    /\ pc[th] = "idle"
    /\ Goto(th, "bat_lock", [op |-> "BatchAddTags", objectID |-> objectID,
                             tags |-> tagList, i |-> 1, j |-> loc[th].j])
    /\ UNCHANGED <<tags, allObjects, autoSave, conn, lastTrigger, ticks, passes,
                 saveChan, pendingDel, redis, file, mu, ret>>

T_BatchAddTagsStep(th) ==
    \* line 172
    \/ /\ pc[th] = "bat_lock"
       /\ Lock(th)
       /\ Goto(th, "bat_loop", loc[th])
       /\ UNCHANGED <<tags, allObjects, autoSave, conn, lastTrigger, ticks, passes,
                 saveChan, pendingDel, redis, file, ret>>
    \* lines 175-182: one pass of the loop
    \/ /\ pc[th] = "bat_loop"
       /\ loc[th].i <= Len(loc[th].tags)
       /\ tags' = AddTagTags(tags, loc[th].objectID, loc[th].tags[loc[th].i])
       /\ Goto(th, "bat_loop", [loc[th] EXCEPT !.i = @ + 1])
       /\ UNCHANGED <<allObjects, autoSave, conn, lastTrigger, ticks, passes, saveChan,
                 pendingDel, redis, file, mu, ret>>
    \* line 184, after the loop
    \/ /\ pc[th] = "bat_loop"
       /\ loc[th].i > Len(loc[th].tags)
       /\ allObjects' = allObjects \cup {loc[th].objectID}
       /\ Goto(th, "bat_unlock", loc[th])
       /\ UNCHANGED <<tags, autoSave, conn, lastTrigger, ticks, passes, saveChan,
                 pendingDel, redis, file, mu, ret>>
    \* lines 186-193 and the deferred Unlock
    \/ /\ pc[th] = "bat_unlock"
       /\ saveChan' = TriggerSave(saveChan)
       /\ mu' = Unlocked(mu, th)
       /\ ret' = [op |-> "BatchAddTags", objectID |-> loc[th].objectID,
                  tags |-> loc[th].tags, err |-> "nil"]
       /\ Return(th)
       /\ UNCHANGED <<tags, allObjects, autoSave, conn, lastTrigger, ticks, passes,
                 pendingDel, redis, file>>

\* ---- GetTagCount, lines 264-274

T_GetTagCountCall(th, tag) ==
    /\ pc[th] = "idle"
    /\ Goto(th, "cnt_rlock", [op |-> "GetTagCount", tag |-> tag, count |-> 0,
                              j |-> loc[th].j])
    /\ UNCHANGED <<tags, allObjects, autoSave, conn, lastTrigger, ticks, passes,
                 saveChan, pendingDel, redis, file, mu, ret>>

\* line 265
T_GetTagCountRLock(th) ==
    /\ pc[th] = "cnt_rlock"
    /\ RLock(th)
    /\ Goto(th, "cnt_read", loc[th])
    /\ UNCHANGED <<tags, allObjects, autoSave, conn, lastTrigger, ticks, passes,
                 saveChan, pendingDel, redis, file, ret>>

\* lines 268-273
T_GetTagCountRead(th) ==
    /\ pc[th] = "cnt_read"
    /\ Goto(th, "cnt_runlock", [loc[th] EXCEPT !.count = GetTagCountResult(tags, loc[th].tag)])
    /\ UNCHANGED <<tags, allObjects, autoSave, conn, lastTrigger, ticks, passes,
                 saveChan, pendingDel, redis, file, mu, ret>>

\* the deferred RUnlock
T_GetTagCountRUnlock(th) ==
    /\ pc[th] = "cnt_runlock"
    /\ mu' = RUnlocked(mu, th)
    /\ ret' = [op |-> "GetTagCount", tag |-> loc[th].tag, count |-> loc[th].count,
               err |-> "nil"]
    /\ Return(th)
    /\ UNCHANGED <<tags, allObjects, autoSave, conn, lastTrigger, ticks, passes,
                 saveChan, pendingDel, redis, file>>

T_GetTagCountStep(th) ==
    \/ T_GetTagCountRLock(th)
    \/ T_GetTagCountRead(th)
    \/ T_GetTagCountRUnlock(th)

\* ---- SaveTagToRedis, redis.go lines 69-79, with saveTagToRedis, lines 55-66

T_SaveTagCall(th, tag) ==
    /\ pc[th] = "idle"
    /\ Goto(th, "stq_rlock", [op |-> "SaveTagToRedis", tag |-> tag, exists |-> FALSE,
                              attached |-> FALSE, content |-> {}, bytes |-> <<>>,
                              j |-> loc[th].j])
    /\ UNCHANGED <<tags, allObjects, autoSave, conn, lastTrigger, ticks, passes,
                 saveChan, pendingDel, redis, file, mu, ret>>

\* line 70
T_SaveTagRLock(th) ==
    /\ pc[th] = "stq_rlock"
    /\ RLock(th)
    /\ Goto(th, "stq_lookup", loc[th])
    /\ UNCHANGED <<tags, allObjects, autoSave, conn, lastTrigger, ticks, passes,
                 saveChan, pendingDel, redis, file, ret>>

\* line 71: bitmap, exists := ts.tags[tag]; bitmap is a pointer
T_SaveTagLookup(th) ==
    /\ pc[th] = "stq_lookup"
    /\ Goto(th, "stq_runlock", [loc[th] EXCEPT !.exists = loc[th].tag \in DOMAIN tags,
                                               !.attached = loc[th].tag \in DOMAIN tags])
    /\ UNCHANGED <<tags, allObjects, autoSave, conn, lastTrigger, ticks, passes,
                 saveChan, pendingDel, redis, file, mu, ret>>

\* lines 72-76: RUnlock, then the return when the tag was not found
T_SaveTagRUnlock(th) ==
    /\ pc[th] = "stq_runlock"
    /\ mu' = RUnlocked(mu, th)
    /\ IF loc[th].exists
       THEN /\ Goto(th, "stq_serialize", loc[th])
            /\ UNCHANGED ret
       ELSE /\ ret' = [op |-> "SaveTagToRedis", tag |-> loc[th].tag, err |-> "tag not found"]
            /\ Return(th)
    /\ UNCHANGED <<tags, allObjects, autoSave, conn, lastTrigger, ticks, passes,
                 saveChan, pendingDel, redis, file>>

\* Whether another thread is between the read and the write of a bitmap.Add
\* on the bitmap l points to.
BeingChanged(l) ==
    /\ l.attached
    /\ \E w \in Threads : pc[w] = "add_write" /\ loc[w].tag = l.tag

\* What a read of the whole bitmap can give: its contents, or, while another
\* thread is changing it (a data race), also bytes no bitmap serializes to.
SerializedRead(l) ==
    {Serialize(PointedBitmap(l))} \cup (IF BeingChanged(l) THEN CorruptValues ELSE {})

\* line 78 with saveTagToRedis lines 57-58: bitmap.WriteTo(&buf), after the
\* read lock was released
T_SaveTagSerialize(th) ==
    /\ pc[th] = "stq_serialize"
    /\ \E bytes \in SerializedRead(loc[th]) :
          Goto(th, "stq_set", [loc[th] EXCEPT !.bytes = bytes])
    /\ UNCHANGED <<tags, allObjects, autoSave, conn, lastTrigger, ticks, passes,
                 saveChan, pendingDel, redis, file, mu, ret>>

\* saveTagToRedis lines 64-65: redis.Set, which may fail
T_SaveTagSet(th, setFails) ==
    /\ pc[th] = "stq_set"
    /\ IF setFails
       THEN /\ ret' = [op |-> "SaveTagToRedis", tag |-> loc[th].tag, err |-> "redis error"]
            /\ UNCHANGED redis
       ELSE /\ ret' = [op |-> "SaveTagToRedis", tag |-> loc[th].tag, err |-> "nil"]
            /\ redis' = MapPut(redis, Key(loc[th].tag), loc[th].bytes)
    /\ Return(th)
    /\ UNCHANGED <<tags, allObjects, autoSave, conn, lastTrigger, ticks, passes,
                 saveChan, pendingDel, file, mu>>

T_SaveTagStep(th) ==
    \/ T_SaveTagRLock(th)
    \/ T_SaveTagLookup(th)
    \/ T_SaveTagRUnlock(th)
    \/ T_SaveTagSerialize(th)
    \/ \E setFails \in BOOLEAN : T_SaveTagSet(th, setFails)

\* ---- SaveToRedis, redis.go lines 35-52, with saveTagToRedis, lines 55-66

T_SaveToRedisCall(th) ==
    /\ pc[th] = "idle"
    /\ Goto(th, "str_rlock", [op |-> "SaveToRedis", todo |-> <<>>, bytes |-> <<>>,
                              failed |-> {}, j |-> loc[th].j])
    /\ UNCHANGED <<tags, allObjects, autoSave, conn, lastTrigger, ticks, passes,
                 saveChan, pendingDel, redis, file, mu, ret>>

\* The steps of the pass.  str_rlock: line 36, and the order in which the
\* range of line 41 will visit the tags.  str_loop: lines 41-42 and 57-58,
\* the next tag's bitmap is serialized and ts.redis.Set is called, or the
\* loop ends.  str_set: line 65, the Set call returns, with an error or
\* without; until it does the thread stays here.  str_runlock: lines 47-51
\* and the deferred RUnlock.
T_SaveToRedisStep(th) ==
    \/ /\ pc[th] = "str_rlock"
       /\ RLock(th)
       /\ \E order \in Orders(DOMAIN tags) :
             Goto(th, "str_loop", [loc[th] EXCEPT !.todo = order])
       /\ UNCHANGED <<tags, allObjects, autoSave, conn, lastTrigger, ticks, passes,
                 saveChan, pendingDel, redis, file, ret>>
    \/ /\ pc[th] = "str_loop"
       /\ IF loc[th].todo = <<>>
          THEN Goto(th, "str_runlock", loc[th])
          ELSE Goto(th, "str_set",
                    [loc[th] EXCEPT !.bytes = Serialize(tags[Head(loc[th].todo)])])
       /\ UNCHANGED <<tags, allObjects, autoSave, conn, lastTrigger, ticks, passes,
                 saveChan, pendingDel, redis, file, mu, ret>>
    \/ /\ pc[th] = "str_set"
       /\ \E setFails \in BOOLEAN :
             IF setFails
             THEN /\ Goto(th, "str_loop",
                          [loc[th] EXCEPT !.failed = @ \cup {Head(loc[th].todo)},
                                          !.todo = Tail(@)])
                  /\ UNCHANGED redis
             ELSE /\ Goto(th, "str_loop", [loc[th] EXCEPT !.todo = Tail(@)])
                  /\ redis' = MapPut(redis, Key(Head(loc[th].todo)), loc[th].bytes)
       /\ UNCHANGED <<tags, allObjects, autoSave, conn, lastTrigger, ticks, passes,
                 saveChan, pendingDel, file, mu, ret>>
    \/ /\ pc[th] = "str_runlock"
       /\ mu' = RUnlocked(mu, th)
       /\ ret' = [op |-> "SaveToRedis", failed |-> loc[th].failed,
                  err |-> IF Cardinality(loc[th].failed) > 0
                          THEN "save completed with errors"
                          ELSE "nil"]
       /\ Return(th)
       /\ UNCHANGED <<tags, allObjects, autoSave, conn, lastTrigger, ticks, passes,
                 saveChan, pendingDel, redis, file>>

\* ---- QueryNotInSystem, tagbox_test.go lines 788-794, with QueryNot,
\* ---- lines 767-781

\* What a QueryNotInSystem(tag) that ran wholly at this point would return:
\* allObjects minus the tag's bitmap.  Every call in progress keeps, in
\* `views`, the answers of all the points in time it has lived through; the
\* program has no such record, nothing reads it but the properties.
Viewed(locals, m, all) ==
    [th \in DOMAIN locals |->
        IF locals[th].op = "QueryNotInSystem"
        THEN [locals[th] EXCEPT
                 !.views = @ \cup {QueryNotResult(m, locals[th].tag, all).bitmap}]
        ELSE locals[th]]

T_QueryNotInSystemCall(th, tag) ==
    /\ pc[th] = "idle"
    /\ Goto(th, "qns_rlock",
            [op |-> "QueryNotInSystem", tag |-> tag, allObjectsClone |-> {},
             result |-> {}, views |-> {QueryNotResult(tags, tag, allObjects).bitmap},
             j |-> loc[th].j])
    /\ UNCHANGED <<tags, allObjects, autoSave, conn, lastTrigger, ticks, passes,
                 saveChan, pendingDel, redis, file, mu, ret>>

\* The steps of the call.  qns_rlock: line 789.  qns_clone: line 790.
\* qns_runlock: line 791.  qn_rlock: QueryNot's RLock, line 768.  qn_read:
\* lines 771-778, with the clone as the universe.  qn_runlock: the deferred
\* RUnlock and the return.
T_QueryNotInSystemStep(th) ==
    \/ /\ pc[th] = "qns_rlock"
       /\ RLock(th)
       /\ Goto(th, "qns_clone", loc[th])
       /\ UNCHANGED <<tags, allObjects, autoSave, conn, lastTrigger, ticks, passes,
                 saveChan, pendingDel, redis, file, ret>>
    \/ /\ pc[th] = "qns_clone"
       /\ Goto(th, "qns_runlock", [loc[th] EXCEPT !.allObjectsClone = Clone(allObjects)])
       /\ UNCHANGED <<tags, allObjects, autoSave, conn, lastTrigger, ticks, passes,
                 saveChan, pendingDel, redis, file, mu, ret>>
    \/ /\ pc[th] = "qns_runlock"
       /\ mu' = RUnlocked(mu, th)
       /\ Goto(th, "qn_rlock", loc[th])
       /\ UNCHANGED <<tags, allObjects, autoSave, conn, lastTrigger, ticks, passes,
                 saveChan, pendingDel, redis, file, ret>>
    \/ /\ pc[th] = "qn_rlock"
       /\ RLock(th)
       /\ Goto(th, "qn_read", loc[th])
       /\ UNCHANGED <<tags, allObjects, autoSave, conn, lastTrigger, ticks, passes,
                 saveChan, pendingDel, redis, file, ret>>
    \/ /\ pc[th] = "qn_read"
       /\ Goto(th, "qn_runlock",
               [loc[th] EXCEPT
                   !.result = QueryNotResult(tags, loc[th].tag, loc[th].allObjectsClone).bitmap])
       /\ UNCHANGED <<tags, allObjects, autoSave, conn, lastTrigger, ticks, passes,
                 saveChan, pendingDel, redis, file, mu, ret>>
    \/ /\ pc[th] = "qn_runlock"
       /\ mu' = RUnlocked(mu, th)
       /\ ret' = [op |-> "QueryNotInSystem", tag |-> loc[th].tag,
                  bitmap |-> loc[th].result, views |-> loc[th].views, err |-> "nil"]
       /\ Return(th)
       /\ UNCHANGED <<tags, allObjects, autoSave, conn, lastTrigger, ticks, passes,
                 saveChan, pendingDel, redis, file>>

\* ---- mutators called by other goroutines while queries are in progress

\* AddTag, lines 119-142, called by another goroutine: it holds ts.mu.Lock()
\* from its first line to its return, so it runs when nobody holds the lock
\* and no step of another call falls inside it.
ConcurrentAddTag(objectID, tag) ==
    /\ CanLock(mu)
    /\ tags' = AddTagTags(tags, objectID, tag)
    /\ allObjects' = allObjects \cup {objectID}
    /\ saveChan' = TriggerSave(saveChan)
    /\ ret' = [op |-> "AddTag", objectID |-> objectID, tag |-> tag, err |-> "nil"]
    /\ loc' = Viewed(loc, tags', allObjects')
    /\ UNCHANGED <<autoSave, conn, lastTrigger, ticks, passes, pendingDel, redis,
                   file, mu, pc>>

\* RemoveTag, lines 145-168, called by another goroutine in the same way.
ConcurrentRemoveTag(objectID, tag) ==
    /\ CanLock(mu)
    /\ tags' = RemoveTagTags(tags, objectID, tag)
    /\ IF tag \notin DOMAIN tags
       THEN UNCHANGED <<pendingDel, saveChan>>
       ELSE IF RemoveTagEmpties(tags, objectID, tag)
            THEN /\ pendingDel' = SpawnDel(pendingDel, Key(tag))
                 /\ UNCHANGED saveChan
            ELSE /\ saveChan' = TriggerSave(saveChan)
                 /\ UNCHANGED pendingDel
    /\ ret' = [op |-> "RemoveTag", objectID |-> objectID, tag |-> tag, err |-> "nil"]
    /\ loc' = Viewed(loc, tags', allObjects)
    /\ UNCHANGED <<allObjects, autoSave, conn, lastTrigger, ticks, passes, redis,
                   file, mu, pc>>

\* How the step a thread executes next touches the tag map, a bitmap or
\* allObjects: "write", "read" or "none".
Access(label) ==
    CASE label \in {"add_lookup", "add_write", "add_all",
                    "rm_remove", "rm_check", "bat_loop"} -> "write"
      [] label \in {"add_read", "rm_lookup", "cnt_read",
                    "stq_lookup", "stq_serialize", "str_loop",
                    "qns_clone", "qn_read"} -> "read"
      [] OTHER -> "none"

\* ------------------------------------------------- calls of a single caller

\* Universes a caller hands to QueryNot.
Universes == SUBSET Objs

\* Op types a caller writes into a QueryOp: the three the code knows and one
\* it does not.
OpTypes == {"AND", "OR", "NOT", "XOR"}

QueryOps == [Type : OpTypes, Tags : TagLists]

\* The calls of one caller with tag names drawn from T, identifiers from
\* Objs, and lists of at most n elements.
\* Longest list of ops handed to ComplexQuery.
MaxOps == 2

\* The tag lists of the ops: none, one and two tags.
OpTagLists == {<<>>, <<"a">>, <<"b">>, <<"a", "b">>}

\* The lists of ops: every known Type with every tag list, and one op of a
\* Type ComplexQuery does not know.
OpLists ==
    SeqsUpTo([Type : {"AND", "OR", "NOT"}, Tags : OpTagLists]
                \cup {[Type |-> "XOR", Tags |-> <<"a">>]}, MaxOps)

MutatorCall(T, n) ==
    \/ \E o \in Objs, t \in T : AddTag(o, t)
    \/ \E o \in Objs, t \in T : RemoveTag(o, t)
    \/ \E o \in Objs, l \in SeqsUpTo(T, n) : BatchAddTags(o, l)
    \/ \E l \in SeqsUpTo(Objs, n), t \in T : BatchAddObjectsToTag(l, t)

LookupCall(T) ==
    \/ \E o \in Objs, t \in T : HasTag(o, t)
    \/ \E o \in Objs : GetObjectTags(o)
    \/ GetAllTags
    \/ \E t \in T : GetTagCount(t)
    \/ GetStats

QueryCall(T, n) ==
    \/ \E t \in T : Query(t)
    \/ \E l \in SeqsUpTo(T, n) : QueryAnd(l)
    \/ \E l \in SeqsUpTo(T, n) : QueryOr(l)
    \/ \E t \in T, u \in Universes : QueryNot(t, u)
    \/ \E t \in T : QueryNotInSystem(t)
    \/ \E t1, t2 \in T : QueryDifference(t1, t2)
    \/ \E t1, t2 \in T : QueryXor(t1, t2)

RedisCall(T) ==
    \/ \E failing \in SUBSET T : SaveToRedis(failing)
    \/ \E t \in T, setFails \in BOOLEAN : SaveTagToRedis(t, setFails)
    \/ \E t \in T, getFails \in BOOLEAN : LoadTagFromRedis(t, getFails)
    \/ \E scanFails \in BOOLEAN, failing \in SUBSET {Key(t) : t \in T} :
          RecoverFromRedis(scanFails, failing)

SnapshotCall ==
    \/ \E outcome \in {"ok", "open", "write"} : SaveSnapshot(outcome)
    \/ LoadSnapshot

\* ------------------------------------- the index and its queries (AutoSave off)

InitQuery == InitIndex /\ autoSave = FALSE

\* The mutators build the index states the queries are asked in; argument
\* lists of one element reach all of them.
NextQuery ==
    \/ MutatorCall(TagNames, 1)
    \/ LookupCall(TagNames)
    \/ QueryCall(TagNames, MaxLen)
    \/ \E qop \in [Type : OpTypes, Tags : OpTagLists] : ComplexQuery(<<qop>>)
    \/ \E o \in Objs : CallerChangesResult(o)
    \/ \E k \in Keys : DelGoroutine(k)

SpecQuery == InitQuery /\ [][NextQuery]_vars

\* --------------------------- every call of a single caller (AutoSave off)

Init == InitIndex /\ autoSave = FALSE

Next ==
    \/ MutatorCall({"a"}, 1)
    \/ LookupCall({"a"})
    \/ QueryCall({"a"}, MaxLen)
    \/ \E ops \in SeqsUpTo([Type : OpTypes, Tags : SeqsUpTo({"a"}, MaxLen)], 1) :
          ComplexQuery(ops)
    \/ RedisCall({"a"})
    \/ SnapshotCall
    \/ \E k \in Keys : DelGoroutine(k)

Spec == Init /\ [][Next]_vars

\* ------------------------------------------- mutators only (AutoSave off)

InitMut == InitIndex /\ autoSave = FALSE

NextMut ==
    \/ MutatorCall(TagNames, MaxLen)
    \/ \E o \in Objs, t \in TagNames : HasTag(o, t)
    \/ \E k \in Keys : DelGoroutine(k)

SpecMut == InitMut /\ [][NextMut]_vars

\* An index that is changed by the mutators and then written to the snapshot
\* file and loaded from it, over both tag names.  The caller mutates the
\* index until the file is written, as TestTagSystem_Snapshot does; a new
\* index is then built that loads the file, which can have been damaged on
\* disk in between.
InitSnap == InitIndex /\ autoSave = FALSE

NextSnap ==
    \/ \E o \in Objs, t \in TagNames : ~file.exists /\ AddTag(o, t)
    \/ \E o \in Objs, t \in TagNames : ~file.exists /\ RemoveTag(o, t)
    \/ \E o \in Objs, l \in SeqsUpTo(TagNames, 1) : ~file.exists /\ BatchAddTags(o, l)
    \/ \E l \in SeqsUpTo(Objs, 1), t \in TagNames : ~file.exists /\ BatchAddObjectsToTag(l, t)
    \/ SnapshotCall
    \/ file.exists /\ New
    \/ \E t \in TagNames, bytes \in CorruptValues : ret.op = "New" /\ DamageFile(t, bytes)

SpecSnap == InitSnap /\ [][NextSnap]_vars

\* An index that is changed by the mutators and then replicated to the store,
\* recovered from it and closed, over both tag names.  The caller mutates the
\* index while the store is empty, as TestTagSystem_RedisPersistence does,
\* and can give an object the tag named "_meta";
\* the `go ts.redis.Del` goroutines run when they run; another writer can
\* set keys of the store, the reserved one included, between the calls that
\* follow a replication pass; a new index can be built on the store.
InitRedis == InitIndex /\ autoSave = FALSE

NextRedis ==
    \/ \E o \in Objs, t \in TagNames :
          conn = "open" /\ DOMAIN redis = {} /\ AddTag(o, t)
    \/ \E o \in Objs, t \in TagNames :
          conn = "open" /\ DOMAIN redis = {} /\ RemoveTag(o, t)
    \/ \E t \in TagNames :
          conn = "open" /\ DOMAIN redis = {} /\ BatchAddObjectsToTag(<<>>, t)
    \/ conn = "open" /\ DOMAIN redis = {} /\ AddTag(1, "_meta")
    \/ \E failing \in SUBSET TagNames : conn = "open" /\ SaveToRedis(failing)
    \/ \E failing \in SUBSET {Key(t) : t \in TagNames} :
          conn = "open" /\ RecoverFromRedis(FALSE, failing)
    \/ conn = "open" /\ RecoverFromRedis(TRUE, {})
    \/ \E failing \in SUBSET TagNames : Close(failing)
    \/ DOMAIN redis # {} /\ New
    \/ \E k \in Keys : DelGoroutine(k)
    \/ \E kb \in ({MetaKey} \X {Serialize({1})}) \cup ({Key(t) : t \in TagNames} \X {<<2, 1>>}) :
          ret.op \in {"New", "RecoverFromRedis"} /\ ExternalSet(kb[1], kb[2])

SpecRedis == InitRedis /\ [][NextRedis]_vars

\* ------------------------------------------------ mutators with AutoSave on

\* DefaultConfig: AutoSave is on, and New starts the worker.
InitAuto == InitIndex /\ autoSave = TRUE

\* The caller's burst of mutations comes before the first tick of the
\* worker's ticker; the worker then runs on a quiet index.
NextAuto ==
    \/ \E o \in Objs : ticks = 0 /\ AddTag(o, "a")
    \/ \E o \in Objs : ticks = 0 /\ RemoveTag(o, "a")
    \/ \E o \in Objs, l \in SeqsUpTo({"a"}, 1) : ticks = 0 /\ BatchAddTags(o, l)
    \/ \E l \in SeqsUpTo(Objs, 1) : ticks = 0 /\ BatchAddObjectsToTag(l, "a")
    \/ \E short \in BOOLEAN, failing \in SUBSET {"a"} : SaveWorkerTick(short, failing)

SpecAuto == InitAuto /\ [][NextAuto]_vars

\* The same with the worker's ticker firing for as long as the model follows
\* it: time.NewTicker(time.Second) never stops while the program runs.
SpecAutoLive ==
    /\ InitAuto
    /\ [][NextAuto]_vars
    /\ WF_vars(\E short \in BOOLEAN, failing \in SUBSET {"a"} : SaveWorkerTick(short, failing))

\* ------------------------------ one ComplexQuery on an index (AutoSave off)

InitComplex == InitIndex /\ autoSave = FALSE

\* The caller builds an index and then asks one complex query.
CallerBuilds == ret.op # "ComplexQuery"

NextComplex ==
    \/ \E o \in Objs, t \in TagNames : CallerBuilds /\ AddTag(o, t)
    \/ \E o \in Objs : CallerBuilds /\ BatchAddTags(o, <<>>)
    \/ \E t \in TagNames : CallerBuilds /\ BatchAddObjectsToTag(<<>>, t)
    \/ \E ops \in OpLists : CallerBuilds /\ ComplexQuery(ops)

SpecComplex == InitComplex /\ [][NextComplex]_vars

\* ------------------- TestTagSystem_ConcurrentAccess: goroutines adding to one tag

\* numOperations of the test, scaled down.
NumOps == 2

\* The tag every goroutine of the test adds to.
TestTag == "test"

\* objectID := uint32(id*numOperations + j); goroutine ids count from 0.
TestObjectID(th, j) == (th - 1) * NumOps + j

\* One pass of the goroutine's loop: the next AddTag call of goroutine th.
TestAddTagCall(th) ==
    /\ pc[th] = "idle"
    /\ loc[th].j < NumOps
    /\ Goto(th, "add_lock", [op |-> "AddTag", objectID |-> TestObjectID(th, loc[th].j),
                             tag |-> TestTag, seen |-> {}, j |-> loc[th].j + 1])
    /\ UNCHANGED <<tags, allObjects, autoSave, conn, lastTrigger, ticks, passes,
                 saveChan, pendingDel, redis, file, mu, ret>>

\* wg.Wait() returns: every goroutine has left its loop.
WaitGroupDone == \A th \in Threads : pc[th] = "idle" /\ loc[th].j = NumOps

\* The test's last step: count, err := ts.GetTagCount("test").
TestVerify == WaitGroupDone /\ GetTagCount(TestTag)

InitConcAdd == InitIndex /\ autoSave = FALSE

NextConcAdd ==
    \/ \E th \in Threads : TestAddTagCall(th)
    \/ \E th \in Threads : T_AddTagStep(th)
    \/ TestVerify

SpecConcAdd == InitConcAdd /\ [][NextConcAdd]_vars

\* --------------------------------- threads calling the index (AutoSave off)

InitConc == InitIndex /\ autoSave = FALSE

NextConc ==
    \/ \E th \in Threads, o \in Objs : T_AddTagCall(th, o, "a")
    \/ \E th \in Threads : T_AddTagStep(th)
    \/ \E th \in Threads, o \in Objs : T_RemoveTagCall(th, o, "a")
    \/ \E th \in Threads : T_RemoveTagStep(th)
    \/ \E th \in Threads : T_GetTagCountCall(th, "a")
    \/ \E th \in Threads : T_GetTagCountStep(th)
    \/ \E th \in Threads : T_SaveTagCall(th, "a")
    \/ \E th \in Threads : T_SaveTagStep(th)
    \/ DelGoroutine(Key("a"))

SpecConc == InitConc /\ [][NextConc]_vars

\* ------------------- threads calling BatchAddTags and others (AutoSave off)

InitConcBatch == InitIndex /\ autoSave = FALSE

\* Each thread calls BatchAddTags with both tags (a mutator), GetTagCount
\* (a lookup), SaveTagToRedis or SaveToRedis.
NextConcBatch ==
    \/ \E th \in Threads, o \in Objs : T_BatchAddTagsCall(th, o, <<"a", "b">>)
    \/ \E th \in Threads : T_BatchAddTagsStep(th)
    \/ \E th \in Threads : T_GetTagCountCall(th, "b")
    \/ \E th \in Threads : T_GetTagCountStep(th)
    \/ \E th \in Threads : T_SaveTagCall(th, "a")
    \/ \E th \in Threads : T_SaveTagStep(th)
    \/ \E th \in Threads : T_SaveToRedisCall(th)
    \/ \E th \in Threads : T_SaveToRedisStep(th)

SpecConcBatch == InitConcBatch /\ [][NextConcBatch]_vars

\* ------------- threads calling QueryNotInSystem among mutators (AutoSave off)

\* Each thread calls QueryNotInSystem("a"); other goroutines add and remove
\* tags "a" and "b".
NextConcQuery ==
    \/ \E th \in Threads : T_QueryNotInSystemCall(th, "a")
    \/ \E th \in Threads : T_QueryNotInSystemStep(th)
    \/ \E o \in Objs, t \in TagNames : ConcurrentAddTag(o, t)
    \/ \E o \in Objs, t \in TagNames : ConcurrentRemoveTag(o, t)

SpecConcQuery == InitConc /\ [][NextConcQuery]_vars

\* ================================================================== claims

\* The (object, tag) pairs HasTag answers TRUE for.
Pairs(m) == {p \in Objs \X TagNames : HasTagResult(m, p[1], p[2])}

ListPairsOfObject(objectID, tagList) == {<<objectID, tagList[i]>> : i \in 1..Len(tagList)}

ListPairsOfTag(objectIDs, tag) == {<<objectIDs[i], tag>> : i \in 1..Len(objectIDs)}

\* One step of the reference set of pairs: an add gains exactly the pairs it
\* names, RemoveTag(o, t) loses exactly (o, t) (nothing when (o, t) is not
\* there, so nothing when the tag is absent), a HasTag answers by membership.
C1_Step ==
    LET before == Pairs(tags)
        after  == Pairs(tags')
    IN  /\ ret'.op = "AddTag" => after = before \cup {<<ret'.objectID, ret'.tag>>}
        /\ ret'.op = "RemoveTag" => after = before \ {<<ret'.objectID, ret'.tag>>}
        /\ ret'.op = "BatchAddTags" =>
              after = before \cup ListPairsOfObject(ret'.objectID, ret'.tags)
        /\ ret'.op = "BatchAddObjectsToTag" =>
              after = before \cup ListPairsOfTag(ret'.objectIDs, ret'.tag)
        /\ ret'.op = "HasTag" =>
              /\ after = before
              /\ ret'.bool <=> (<<ret'.objectID, ret'.tag>> \in before)

\* C1: under any sequence of AddTag, RemoveTag, BatchAddTags and
\* BatchAddObjectsToTag calls, the set of pairs HasTag answers TRUE for is a
\* reference set that starts empty, gains (o, t) on every add of that pair
\* and loses (o, t), and no other pair, on RemoveTag(o, t).
C1_HasTagIsReferenceSet == (Pairs(tags) = {}) /\ [][C1_Step]_vars

\* A RemoveTag has taken one pair out of a tag that keeps another pair, while
\* the other tag holds pairs too.
C1_Witness ==
    /\ ret.op = "RemoveTag"
    /\ <<ret.objectID, ret.tag>> \notin Pairs(tags)
    /\ \E o \in Objs : <<o, ret.tag>> \in Pairs(tags)
    /\ \E o \in Objs, t \in TagNames \ {ret.tag} : <<o, t>> \in Pairs(tags)

\* C2: no tag present in the tag map has an empty bitmap.
C2_NoEmptyTag == \A t \in DOMAIN tags : tags[t] # {}

\* The union of the bitmaps of the tags in the index.
UnionOfTags(m) == UNION {m[t] : t \in DOMAIN m}

\* C3: allObjects equals the union of the bitmaps of all tags in the index.
C3_AllObjectsIsUnion == allObjects = UnionOfTags(tags)

\* C4: no operation takes an identifier out of allObjects.
C4_AllObjectsGrows == [][allObjects \subseteq allObjects']_vars

\* RemoveTag has emptied and deleted a tag, and the identifier it removed is
\* still in allObjects.
C4_Witness ==
    /\ ret.op = "RemoveTag"
    /\ ret.tag \notin DOMAIN tags
    /\ ret.objectID \in allObjects
    /\ ret.objectID \notin UnionOfTags(tags)

\* The object IDs whose AddTag call goroutine th has returned from.
TestAdded(th) ==
    {TestObjectID(th, k) : k \in 0..((IF pc[th] = "idle" THEN loc[th].j ELSE loc[th].j - 1) - 1)}

\* C5: concurrent AddTag calls on one tag with distinct object IDs lose no
\* update.  At every moment the tag holds every ID whose call has returned;
\* once all goroutines are done it holds exactly the IDs that were added, and
\* GetTagCount reports their number.
C5_NoLostUpdate ==
    /\ \A th \in Threads : TestAdded(th) \subseteq SetOfTag(tags, TestTag)
    /\ WaitGroupDone =>
          SetOfTag(tags, TestTag) = {TestObjectID(th, k) : th \in Threads, k \in 0..(NumOps - 1)}
    /\ ret.op = "GetTagCount" => ret.count = NumThreads * NumOps /\ ret.err = "nil"

\* Two goroutines interleave: one holds the lock in the middle of its
\* bitmap.Add on a bitmap that already holds an ID of the other, which is
\* waiting for the lock with its next ID.
C5_Witness ==
    \E a, b \in Threads :
        /\ a # b
        /\ pc[a] = "add_lock"
        /\ pc[b] = "add_all"
        /\ mu.w = b
        /\ TestAdded(a) # {}
        /\ TestAdded(a) \cup {loc[b].objectID} \subseteq SetOfTag(tags, TestTag)

\* C6: every read and every write of the tag map, of a bitmap's contents and
\* of AllObjects happens under the index lock: a step that writes holds the
\* lock exclusively, a step that reads holds it at least shared.
C6_AccessUnderLock ==
    \A th \in Threads :
        /\ Access(pc[th]) = "write" => mu.w = th
        /\ Access(pc[th]) = "read" => mu.w = th \/ th \in mu.r

\* SaveTagToRedis is about to serialize the bitmap it looked up, holding no
\* lock, while another thread holds the lock in the middle of a bitmap.Add
\* on that bitmap.
C6_Witness ==
    \E a, b \in Threads :
        /\ pc[a] = "stq_serialize"
        /\ a \notin mu.r
        /\ BeingChanged(loc[a])
        /\ pc[b] = "add_write"
        /\ mu.w = b

\* What C7 says QueryAnd returns.
AndOfAll(m, tagList) ==
    IF tagList = <<>> \/ \E i \in 1..Len(tagList) : tagList[i] \notin DOMAIN m
    THEN {}
    ELSE {o \in Objs : \A i \in 1..Len(tagList) : o \in m[tagList[i]]}

\* C7: QueryAnd returns the empty set for an empty list and when any named
\* tag is absent, and otherwise the intersection of the named tags' bitmaps.
C7_QueryAnd ==
    /\ \A l \in TagLists : QueryAndResult(tags, l) = AndOfAll(tags, l)
    /\ ret.op = "QueryAnd" => ret.bitmap = AndOfAll(tags, ret.tags)

\* QueryAnd was called with a present, non-empty first tag and an absent
\* second one, and returned the empty set.
C7_Witness ==
    /\ ret.op = "QueryAnd"
    /\ Len(ret.tags) = 2
    /\ ret.tags[1] \in DOMAIN tags
    /\ tags[ret.tags[1]] # {}
    /\ ret.tags[2] \notin DOMAIN tags
    /\ ret.bitmap = {}

\* What C8 says QueryOr returns.
OrOfPresent(m, tagList) ==
    {o \in Objs : \E i \in 1..Len(tagList) : tagList[i] \in DOMAIN m /\ o \in m[tagList[i]]}

\* C8: QueryOr returns the union of the bitmaps of the named tags that exist;
\* absent tags contribute nothing and cause no error, an empty list gives the
\* empty set.
C8_QueryOr ==
    /\ \A l \in TagLists : QueryOrResult(tags, l) = OrOfPresent(tags, l)
    /\ QueryOrResult(tags, <<>>) = {}
    /\ ret.op = "QueryOr" => ret.bitmap = OrOfPresent(tags, ret.tags) /\ ret.err = "nil"

\* QueryOr was called with an absent tag followed by a present one and
\* returned the present tag's bitmap.
C8_Witness ==
    /\ ret.op = "QueryOr"
    /\ Len(ret.tags) = 2
    /\ ret.tags[1] \notin DOMAIN tags
    /\ ret.tags[2] \in DOMAIN tags
    /\ ret.bitmap = tags[ret.tags[2]]
    /\ ret.bitmap # {}

\* C9: QueryNot(tag, U) returns U minus the tag's bitmap, a copy equal to U
\* when the tag is absent, and leaves the caller's U as it was.
C9_QueryNot ==
    /\ \A t \in TagNames, u \in Universes :
          /\ QueryNotResult(tags, t, u).bitmap = u \ SetOfTag(tags, t)
          /\ QueryNotResult(tags, t, u).universe = u
    /\ ret.op = "QueryNot" =>
          /\ ret.bitmap = ret.universe \ SetOfTag(tags, ret.tag)
          /\ ret.tag \notin DOMAIN tags => ret.bitmap = ret.universe
          /\ ret.universeAfter = ret.universe

\* QueryNot was called with a universe that overlaps the tag's bitmap and
\* reaches beyond it.
C9_Witness ==
    /\ ret.op = "QueryNot"
    /\ ret.tag \in DOMAIN tags
    /\ ret.universe \cap tags[ret.tag] # {}
    /\ ret.bitmap # {}
    /\ ret.bitmap # ret.universe

\* C10: QueryDifference(A, B) is set(A) minus set(B) and QueryXor(A, B) the
\* symmetric difference of set(A) and set(B), an absent tag counting as the
\* empty set.
C10_PairwiseQueries ==
    /\ \A t1, t2 \in TagNames :
          /\ QueryDifferenceResult(tags, t1, t2) = SetOfTag(tags, t1) \ SetOfTag(tags, t2)
          /\ QueryXorResult(tags, t1, t2) =
                (SetOfTag(tags, t1) \ SetOfTag(tags, t2)) \cup (SetOfTag(tags, t2) \ SetOfTag(tags, t1))
    /\ ret.op = "QueryDifference" =>
          ret.bitmap = SetOfTag(tags, ret.tag1) \ SetOfTag(tags, ret.tag2)
    /\ ret.op = "QueryXor" =>
          ret.bitmap = (SetOfTag(tags, ret.tag1) \ SetOfTag(tags, ret.tag2))
                         \cup (SetOfTag(tags, ret.tag2) \ SetOfTag(tags, ret.tag1))

\* QueryDifference was called with a present first tag and an absent second
\* one, and returned the first tag's bitmap.
C10_Witness ==
    /\ ret.op = "QueryDifference"
    /\ ret.tag1 \in DOMAIN tags
    /\ ret.tag2 \notin DOMAIN tags
    /\ ret.bitmap = tags[ret.tag1]
    /\ ret.bitmap # {}

\* An op ComplexQuery accepts: a known Type, and one tag when the Type is NOT.
ValidOp(qop) ==
    /\ qop.Type \in {"AND", "OR", "NOT"}
    /\ qop.Type = "NOT" => Len(qop.Tags) = 1

\* What C11 says the partial result of a valid op is.
PartialOf(qop) ==
    CASE qop.Type = "AND" -> QueryAndResult(tags, qop.Tags)
      [] qop.Type = "OR"  -> QueryOrResult(tags, qop.Tags)
      [] qop.Type = "NOT" -> allObjects \ SetOfTag(tags, qop.Tags[1])

\* C11: for a non-empty list of valid ops ComplexQuery returns the
\* intersection of the ops' partial results (QueryAnd of an AND op's tags,
\* QueryOr of an OR op's tags, AllObjects minus the tag of a NOT op),
\* whatever the Types of the ops are.
C11_ComplexQueryIntersects ==
    (ret.op = "ComplexQuery" /\ Len(ret.ops) > 0 /\ \A i \in DOMAIN ret.ops : ValidOp(ret.ops[i]))
    => /\ ret.err = "nil"
       /\ ~ret.isNil
       /\ ret.bitmap = {o \in Objs : \A i \in DOMAIN ret.ops : o \in PartialOf(ret.ops[i])}

\* ComplexQuery was called with an AND op followed by an OR op whose partial
\* results differ, and returned a non-empty set smaller than the OR op's.
C11_Witness ==
    /\ ret.op = "ComplexQuery"
    /\ Len(ret.ops) = 2
    /\ ret.ops[1].Type = "AND"
    /\ ret.ops[2].Type = "OR"
    /\ ret.bitmap # {}
    /\ ret.bitmap # PartialOf(ret.ops[2])

\* C12: ComplexQuery combines the partial results of the listed ops by
\* union, so an object in the partial result of one op is in the result.
C12_ComplexQueryUnion ==
    (ret.op = "ComplexQuery" /\ Len(ret.ops) > 0 /\ \A i \in DOMAIN ret.ops : ValidOp(ret.ops[i]))
    => ret.bitmap = {o \in Objs : \E i \in DOMAIN ret.ops : o \in PartialOf(ret.ops[i])}

\* ComplexQuery was called with two AND ops, an object is in the partial
\* result of the first only, and the result is empty.
C12_Witness ==
    /\ ret.op = "ComplexQuery"
    /\ Len(ret.ops) = 2
    /\ ret.ops[1].Type = "AND"
    /\ ret.ops[2].Type = "AND"
    /\ PartialOf(ret.ops[1]) # {}
    /\ ret.bitmap = {}

\* C13: ComplexQuery returns an error and no bitmap exactly when some op of
\* the list, at any position, is a NOT op without exactly one tag or has an
\* unknown Type; the call leaves the tag map and AllObjects as they were; an
\* empty list gives the empty set and no error.
C13_ComplexQueryRejects ==
    [][ret'.op = "ComplexQuery" =>
          /\ (ret'.err # "nil") = (\E i \in DOMAIN ret'.ops : ~ValidOp(ret'.ops[i]))
          /\ ret'.err # "nil" => ret'.isNil
          /\ ret'.err = "nil" => ~ret'.isNil
          /\ Len(ret'.ops) = 0 => ret'.err = "nil" /\ ret'.bitmap = {}
          /\ tags' = tags
          /\ allObjects' = allObjects]_vars

\* ComplexQuery was called on a non-empty index with a valid first op whose
\* partial result is non-empty and an invalid second op, and returned an
\* error and no bitmap.
C13_Witness ==
    /\ ret.op = "ComplexQuery"
    /\ Len(ret.ops) = 2
    /\ ValidOp(ret.ops[1])
    /\ PartialOf(ret.ops[1]) # {}
    /\ ~ValidOp(ret.ops[2])
    /\ ret.err # "nil"
    /\ ret.isNil

\* The queries and the lookups.
ReadOps ==
    {"Query", "QueryAnd", "QueryOr", "QueryNot", "QueryNotInSystem", "QueryDifference",
     "QueryXor", "ComplexQuery", "HasTag", "GetObjectTags", "GetAllTags", "GetTagCount",
     "GetStats"}

\* C14: no query and no lookup changes the tag map, a tag's bitmap,
\* AllObjects or the trigger queue, and neither does a change the caller
\* makes to a bitmap a query returned: every returned bitmap is a copy.
C14_QueriesChangeNothing ==
    [][ret'.op \in ReadOps \cup {"CallerChange"} =>
          /\ tags' = tags
          /\ allObjects' = allObjects
          /\ saveChan' = saveChan]_vars

\* The caller added an object to the bitmap Query returned for a present
\* tag; the returned bitmap now differs from the tag's.
C14_Witness ==
    /\ ret.op = "CallerChange"
    /\ ret.from = "Query"
    /\ ret.bitmap # ret.before
    /\ \E t \in DOMAIN tags : tags[t] # {} /\ tags[t] = ret.before

\* C15: calling AddTag(o, t) a second time leaves the tag map and AllObjects
\* as the first call left them, whatever the index held before; the
\* cardinality of t is the same.
C15_AddTagIdempotent ==
    /\ [](\A o \in Objs, t \in TagNames :
             AddTagTags(AddTagTags(tags, o, t), o, t) = AddTagTags(tags, o, t))
    /\ [][(/\ ret.op = "AddTag"
           /\ ret'.op = "AddTag"
           /\ ret'.objectID = ret.objectID
           /\ ret'.tag = ret.tag)
          => /\ tags' = tags
             /\ allObjects' = allObjects
             /\ GetTagCountResult(tags', ret.tag) = GetTagCountResult(tags, ret.tag)]_vars

\* AddTag returned for the only pair of the index after two mutator calls
\* that posted a trigger each.
C15_Witness ==
    /\ ret.op = "AddTag"
    /\ saveChan = 2
    /\ DOMAIN tags = {ret.tag}
    /\ tags[ret.tag] = {ret.objectID}
    /\ allObjects = {ret.objectID}

\* C16: once RemoveTag has taken the last object out of a tag's bitmap,
\* GetAllTags no longer lists the tag and GetTagCount gives 0 for it.
C16_EmptiedTagIsGone ==
    [][(/\ ret'.op = "RemoveTag"
        /\ ret'.tag \in DOMAIN tags
        /\ \A o \in Objs : ~HasTagResult(tags', o, ret'.tag))
       => /\ ret'.tag \notin GetAllTagsResult(tags')
          /\ GetTagCountResult(tags', ret'.tag) = 0]_vars

\* RemoveTag took the last object out of a tag, which is gone from the map,
\* while the other tag still holds that object.
C16_Witness ==
    /\ ret.op = "RemoveTag"
    /\ ret.tag \notin DOMAIN tags
    /\ pendingDel[Key(ret.tag)] > 0
    /\ \E t \in DOMAIN tags : ret.objectID \in tags[t]

\* Thread th is inside BatchAddTags and has inserted the object into at least
\* one of the named tags but not yet into AllObjects.
MidBatch(th) == pc[th] = "bat_loop" /\ loc[th].i > 1

\* C17: BatchAddTags is atomic with respect to every other operation: while
\* a thread has inserted the object into some of the named tags, or into
\* all of them but not yet into AllObjects, no other thread reads or writes
\* the tag map, a bitmap or AllObjects.
C17_BatchAddTagsAtomic ==
    \A b \in Threads : MidBatch(b) =>
        \A th \in Threads \ {b} : Access(pc[th]) = "none"

\* BatchAddTags has put the object into tag "a" and not yet into tag "b"
\* nor into AllObjects, and SaveTagToRedis on another thread has serialized
\* the bitmap of "a" with the object in it.
C17_Witness ==
    \E b, th \in Threads :
        /\ MidBatch(b)
        /\ loc[b].tags = <<"a", "b">>
        /\ loc[b].i = 2
        /\ loc[b].objectID \notin allObjects
        /\ loc[b].objectID \notin SetOfTag(tags, "b")
        /\ pc[th] = "stq_set"
        /\ loc[th].tag = "a"
        /\ loc[b].objectID \in SetOfTag(tags, "a")
        /\ loc[th].bytes = Serialize(SetOfTag(tags, "a"))

\* The pair <<tag map, AllObjects>> left by calling AddTag for each
\* <<object, tag>> of `pairs` in order, starting from <<m, all>>.
RECURSIVE AddTagsInOrder(_, _, _)
AddTagsInOrder(m, all, pairs) ==
    IF Len(pairs) = 0
    THEN <<m, all>>
    ELSE AddTagsInOrder(AddTagTags(m, Head(pairs)[1], Head(pairs)[2]),
                        all \cup {Head(pairs)[1]},
                        Tail(pairs))

\* C18: BatchAddTags(o, tags) leaves the tag map and AllObjects as calling
\* AddTag(o, t) for each t of the list in order does, for every list, the
\* empty one and those with repeats included; afterwards GetObjectTags(o)
\* contains every named tag.
C18_BatchAddTagsIsAddTags ==
    [][ret'.op = "BatchAddTags" =>
          LET each == AddTagsInOrder(tags, allObjects,
                          [i \in 1..Len(ret'.tags) |-> <<ret'.objectID, ret'.tags[i]>>])
          IN  /\ tags' = each[1]
              /\ allObjects' = each[2]
              /\ \A i \in 1..Len(ret'.tags) :
                    ret'.tags[i] \in GetObjectTagsResult(tags', ret'.objectID)]_vars

\* BatchAddTags was called with an empty list for an object no tag holds,
\* and the object is in AllObjects.
C18_Witness ==
    /\ ret.op = "BatchAddTags"
    /\ Len(ret.tags) = 0
    /\ ret.objectID \in allObjects
    /\ ret.objectID \notin UnionOfTags(tags)

\* C19: BatchAddObjectsToTag(ids, t) leaves the tag map and AllObjects as
\* calling AddTag(id, t) for each id of the list in order does, for every
\* list, the empty one and those with repeats included; afterwards
\* GetTagCount(t) is the number of distinct identifiers in the tag.
C19_BatchAddObjectsIsAddTags ==
    [][ret'.op = "BatchAddObjectsToTag" =>
          LET each == AddTagsInOrder(tags, allObjects,
                          [i \in 1..Len(ret'.objectIDs) |-> <<ret'.objectIDs[i], ret'.tag>>])
          IN  /\ tags' = each[1]
              /\ allObjects' = each[2]
              /\ GetTagCountResult(tags', ret'.tag) =
                    Cardinality({o \in Objs : HasTagResult(tags', o, ret'.tag)})]_vars

\* BatchAddObjectsToTag was called with an empty list and its tag is in the
\* map with an empty bitmap.
C19_Witness ==
    /\ ret.op = "BatchAddObjectsToTag"
    /\ Len(ret.objectIDs) = 0
    /\ ret.tag \in DOMAIN tags
    /\ tags[ret.tag] = {}

\* roaring-tags New(config) followed by LoadSnapshot of the file: the state
\* [tags, all, err, failed] of a fresh, empty index after loading `data`
\* with its entries visited in `order`.
LoadedIntoFresh(data, order) ==
    LoadSnapshotLoop([tags |-> EmptyMap, all |-> NewBitmap, err |-> "nil", failed |-> {}],
                     data, order)

\* C20: after any sequence of mutations on an index, a SaveSnapshot that
\* succeeded followed by LoadSnapshot of that file into a fresh, empty index
\* succeeds and gives the same HasTag answer as the saved index for every
\* object and tag, whatever the order the entries are loaded in.
C20_SnapshotRoundTrip ==
    (ret.op = "SaveSnapshot" /\ ret.err = "nil") =>
        /\ file.exists /\ file.json
        /\ \A order \in Orders(DOMAIN file.data) :
              LET B == LoadedIntoFresh(file.data, order)
              IN  /\ B.err = "nil"
                  /\ \A o \in Objs, t \in TagNames :
                        HasTagResult(B.tags, o, t) = HasTagResult(tags, o, t)

\* A snapshot was just saved of an index where both tags exist, with
\* different objects, and one object has both.
C20_Witness ==
    /\ ret.op = "SaveSnapshot" /\ ret.err = "nil"
    /\ DOMAIN tags = TagNames
    /\ tags["a"] # tags["b"]
    /\ tags["a"] \cap tags["b"] # {}
    /\ DOMAIN file.data = TagNames


\* The calls that change the index.
Mutators == {"AddTag", "RemoveTag", "BatchAddTags", "BatchAddObjectsToTag"}

\* C27: with AutoSave set, every call of AddTag, RemoveTag, BatchAddTags or
\* BatchAddObjectsToTag that changes the tag map or AllObjects posts one
\* signal to SaveChan, or finds it full.
C27_ChangePostsTrigger ==
    [][(/\ autoSave
        /\ ret'.op \in Mutators
        /\ (tags' # tags \/ allObjects' # allObjects))
       => (saveChan' = saveChan + 1 \/ saveChan = SaveChanCap)]_vars

\* AutoSave is set, one signal is in the queue, and the last call was a
\* RemoveTag that emptied its tag and deleted it.
C27_Witness ==
    /\ autoSave
    /\ ret.op = "RemoveTag"
    /\ ret.tag \notin DOMAIN tags
    /\ pendingDel[Key(ret.tag)] = 1
    /\ saveChan = 1

\* The sum of the cardinalities of the bitmaps of the tags in T.
RECURSIVE SumOfCardinalities(_, _)
SumOfCardinalities(m, T) ==
    IF T = {}
    THEN 0
    ELSE LET t == CHOOSE x \in T : TRUE
         IN  Cardinality(m[t]) + SumOfCardinalities(m, T \ {t})

\* The largest cardinality of a bitmap in the map, 0 for the empty map.
MaxCardinality(m) ==
    IF DOMAIN m = {}
    THEN 0
    ELSE CHOOSE c \in {Cardinality(m[t]) : t \in DOMAIN m} :
            \A t \in DOMAIN m : Cardinality(m[t]) <= c

\* C30: GetStats returns TotalTags = the number of tags, TotalObjects = the
\* sum of the tags' cardinalities, UniqueObjects = the cardinality of
\* AllObjects, LargestTagSize = the largest cardinality of a tag, and
\* LargestTag = a tag of the index with that cardinality whenever the index
\* has a tag (the empty name and size 0 when it has none).
C30_GetStats ==
    ret.op = "GetStats" =>
        /\ ret.stats.TotalTags = Cardinality(DOMAIN tags)
        /\ ret.stats.TotalObjects = SumOfCardinalities(tags, DOMAIN tags)
        /\ ret.stats.UniqueObjects = Cardinality(allObjects)
        /\ ret.stats.LargestTagSize = MaxCardinality(tags)
        /\ IF DOMAIN tags = {}
           THEN ret.stats.LargestTag = ""
           ELSE /\ ret.stats.LargestTag \in DOMAIN tags
                /\ Cardinality(tags[ret.stats.LargestTag]) = ret.stats.LargestTagSize

\* GetStats was called on an index whose only tags have empty bitmaps.
C30_Witness ==
    /\ ret.op = "GetStats"
    /\ DOMAIN tags # {}
    /\ \A t \in DOMAIN tags : tags[t] = {}
    /\ ret.stats.LargestTag = ""


\* C22: a LoadSnapshot that succeeds merges the file into the index: the
\* bitmap of every tag of the file becomes the union of the tag's bitmap
\* before the load and its bitmap in the file, the other tags are unchanged,
\* and AllObjects becomes the union of AllObjects before and every bitmap of
\* the file.
C22_LoadSnapshotMerges ==
    [][(ret'.op = "LoadSnapshot" /\ ret'.err = "nil" /\ pendingDel' = pendingDel) =>
          /\ DOMAIN tags' = DOMAIN tags \cup DOMAIN file.data
          /\ \A t \in DOMAIN file.data :
                tags'[t] = SetOfTag(tags, t) \cup Deserialize(file.data[t])
          /\ \A t \in DOMAIN tags \ DOMAIN file.data : tags'[t] = tags[t]
          /\ allObjects' = allObjects \cup
                              UNION {Deserialize(file.data[t]) : t \in DOMAIN file.data}]_vars

\* A LoadSnapshot succeeded, the tag has exactly the bitmap of the file, and
\* AllObjects holds an object the tag does not.
C22_Witness ==
    /\ ret.op = "LoadSnapshot" /\ ret.err = "nil"
    /\ "a" \in DOMAIN file.data
    /\ "a" \in DOMAIN tags
    /\ tags["a"] = Deserialize(file.data["a"])
    /\ allObjects \ tags["a"] # {}


\* C23: when the snapshot file holds a tag whose bytes cannot be
\* deserialized, LoadSnapshot reports the failure and still loads every
\* other tag of the file.
C23_CorruptEntryIsSkipped ==
    [][(ret'.op = "LoadSnapshot" /\ file' = file /\ file.exists /\ file.json) =>
          /\ (\E t \in DOMAIN file.data : ~WellFormed(file.data[t])) => ret'.err # "nil"
          /\ \A t \in DOMAIN file.data :
                WellFormed(file.data[t]) =>
                    /\ t \in DOMAIN tags'
                    /\ Deserialize(file.data[t]) \subseteq tags'[t]]_vars

\* A LoadSnapshot into a new index failed on one tag of the file, and the
\* index lacks another tag of the file whose bytes are well formed.
C23_Witness ==
    /\ ret.op = "LoadSnapshot" /\ ret.err = "load tag failed"
    /\ \E t \in DOMAIN file.data :
          /\ WellFormed(file.data[t])
          /\ t \notin ret.failed
          /\ t \notin DOMAIN tags


\* New(config) followed by RecoverFromRedis with no failing Get: the state
\* [tags, all, errs] of a fresh, empty index after recovering from `store`
\* with the scanned keys visited in the order `keys`.
RecoveredIntoFresh(store, keys) ==
    RecoverLoop([tags |-> EmptyMap, all |-> NewBitmap, errs |-> {}], store, keys, {})

\* C21: after any sequence of mutations on an index, with any tag names, a
\* SaveToRedis that succeeds on a store that was empty, followed by
\* RecoverFromRedis into a fresh, empty index on the same store and prefix,
\* gives the same HasTag answer as the saved index for every object and tag.
C21_RedisRoundTrip ==
    [][(/\ ret'.op = "SaveToRedis" /\ ret'.err = "nil"
        /\ DOMAIN redis = {}
        /\ pendingDel' = pendingDel)
       => \A keys \in Orders(RecoverKeys(redis')) :
             LET B == RecoveredIntoFresh(redis', keys)
             IN  \A o \in Objs, t \in DOMAIN tags' \cup TagNames :
                    HasTagResult(B.tags, o, t) = HasTagResult(tags', o, t)]_vars

\* A SaveToRedis succeeded on an index where an object has the tag named
\* "_meta", and the store holds that tag's bitmap under the reserved key.
C21_Witness ==
    /\ ret.op = "SaveToRedis" /\ ret.err = "nil"
    /\ "_meta" \in DOMAIN tags
    /\ MetaKey \in DOMAIN redis
    /\ redis[MetaKey] = Serialize(tags["_meta"])


\* The keys of the store under the prefix, the reserved one excepted.
TagKeys(store) == {k \in DOMAIN store : HasPrefix(k) /\ k # MetaKey}

\* What a RecoverFromRedis step that reported the tags ret'.failed must have
\* done: every key whose bytes are corrupt is among the failed; a failed
\* key leaves its tag as it was; every other key's bitmap is installed
\* under the key's tag name and unioned into AllObjects; the tags of no key,
\* "_meta" among them, are as they were; the call returns an error exactly
\* when some key failed.
RecoverAttemptsEveryKey ==
    LET K == TagKeys(redis)
        ok == {k \in K : TagOfKey(k) \notin ret'.failed}
    IN  /\ \A k \in K : ~WellFormed(redis[k]) => TagOfKey(k) \in ret'.failed
        /\ ret'.failed \subseteq {TagOfKey(k) : k \in K}
        /\ DOMAIN tags' = DOMAIN tags \cup {TagOfKey(k) : k \in ok}
        /\ \A k \in ok : tags'[TagOfKey(k)] = Deserialize(redis[k])
        /\ \A t \in DOMAIN tags \ {TagOfKey(k) : k \in ok} : tags'[t] = tags[t]
        /\ allObjects' = allObjects \cup UNION {Deserialize(redis[k]) : k \in ok}
        /\ (ret'.err # "nil") <=> (ret'.failed # {})

\* A step of RecoverFromRedis: the call returned and the store is as it was.
RecoverStep ==
    /\ ret'.op = "RecoverFromRedis"
    /\ redis' = redis
    /\ pendingDel' = pendingDel

C25_SaveToRedisBestEffort ==
    [][(ret'.op = "SaveToRedis" /\ pendingDel' = pendingDel) =>
          LET written == DOMAIN tags \ ret'.failed
          IN  /\ ret'.failed \subseteq DOMAIN tags
              /\ DOMAIN redis' = DOMAIN redis \cup {Key(t) : t \in written}
              /\ \A t \in written : redis'[Key(t)] = Serialize(tags[t])
              /\ \A k \in DOMAIN redis \ {Key(t) : t \in written} : redis'[k] = redis[k]
              /\ (ret'.err # "nil") <=> (ret'.failed # {})
              /\ tags' = tags
              /\ allObjects' = allObjects]_vars

\* A SaveToRedis pass failed for one tag, whose key is not in the store, and
\* stored the bitmap of another tag.
C25_Witness ==
    /\ ret.op = "SaveToRedis"
    /\ ret.err = "save completed with errors"
    /\ \E t \in TagNames :
          /\ ret.failed = {t}
          /\ Key(t) \notin DOMAIN redis
          /\ \E u \in DOMAIN tags \ {t} :
                /\ Key(u) \in DOMAIN redis
                /\ redis[Key(u)] = Serialize(tags[u])


\* C26: Close always releases the connection to the store: after Close has
\* returned, with the failure of its final replication pass or without, the
\* connection is closed.
C26_CloseReleasesConnection == ret.op = "Close" => conn = "closed"

\* Close returned the failure of its final replication pass and the
\* connection is open.
C26_Witness ==
    /\ ret.op = "Close"
    /\ ret.err = "save to redis failed"
    /\ conn = "open"


\* The steps at which a thread has called the external store and the call
\* has not returned.
OutstandingStoreCall == {"stq_set", "str_set"}

\* C29: no durability operation holds the index lock while one of its
\* external-store calls is outstanding, so a store call that stalls never
\* keeps a mutator or a query from taking the lock.
C29_NoLockAcrossStoreCall ==
    \A th \in Threads :
        pc[th] \in OutstandingStoreCall => mu.w # th /\ th \notin mu.r

\* A SaveToRedis pass waits for its Set call to return, holding the read
\* lock, and a BatchAddTags call waits for the lock and cannot take it.
C29_Witness ==
    \E th \in Threads, b \in Threads :
        /\ pc[th] = "str_set"
        /\ th \in mu.r
        /\ pc[b] = "bat_lock"
        /\ ~CanLock(mu)


TickDrains ==
    /\ saveChan > 0
    /\ saveChan' = saveChan - 1
    /\ lastTrigger' = 0
    /\ passes' = passes
    /\ redis' = redis

\* (b) of C31: the queue is empty, a last-trigger time is recorded and is one
\* tick old or more, the worker makes a pass and clears the recorded time.
TickPasses ==
    /\ saveChan = 0
    /\ lastTrigger # -1
    /\ lastTrigger + 1 >= 1
    /\ passes' = passes + 1
    /\ lastTrigger' = -1
    /\ saveChan' = saveChan

\* (c) of C31: nothing; the queue, the recorded time (as an instant) and the
\* store are what they were.
TickIdles ==
    /\ saveChan' = saveChan
    /\ passes' = passes
    /\ redis' = redis
    /\ (lastTrigger' = -1) <=> (lastTrigger = -1)

\* C31: at every tick of the background worker exactly one of (a), (b), (c)
\* happens, and the worker makes no pass unless it took a signal since its
\* previous pass (a last-trigger time is recorded).
C31_TickDoesOneThing ==
    [][ticks' = ticks + 1 =>
          /\ \/ TickDrains /\ ~TickPasses /\ ~TickIdles
             \/ TickPasses /\ ~TickDrains /\ ~TickIdles
             \/ TickIdles /\ ~TickDrains /\ ~TickPasses
          /\ saveChan > 0 => TickDrains
          /\ passes' # passes => lastTrigger # -1
          /\ tags' = tags /\ allObjects' = allObjects]_vars

\* Three ticks after a burst the worker has made its pass, the recorded
\* time is cleared and the store holds the tag's bitmap.
C31_Witness ==
    /\ ticks = 3
    /\ passes = 1
    /\ lastTrigger = -1
    /\ saveChan = 0
    /\ Key("a") \in DOMAIN redis
    /\ "a" \in DOMAIN tags
    /\ redis[Key("a")] = Serialize(tags["a"])


\* What the mutator that returned ret' must have done to the index.
MutatorDone ==
    CASE ret'.op = "AddTag" ->
             /\ HasTagResult(tags', ret'.objectID, ret'.tag)
             /\ ret'.objectID \in allObjects'
      [] ret'.op = "RemoveTag" -> ~HasTagResult(tags', ret'.objectID, ret'.tag)
      [] ret'.op = "BatchAddTags" ->
             /\ \A i \in 1..Len(ret'.tags) : HasTagResult(tags', ret'.objectID, ret'.tags[i])
             /\ ret'.objectID \in allObjects'
      [] ret'.op = "BatchAddObjectsToTag" ->
             \A i \in 1..Len(ret'.objectIDs) :
                 /\ HasTagResult(tags', ret'.objectIDs[i], ret'.tag)
                 /\ ret'.objectIDs[i] \in allObjects'
      [] OTHER -> TRUE

\* C32: SaveChan never holds more signals than its capacity, and a mutator
\* that finds it full drops its signal, still makes its update of the
\* index and returns nil.
C32_QueueBoundedMutatorsComplete ==
    /\ [](saveChan <= SaveChanCap)
    /\ [][(ret'.op \in Mutators /\ ticks' = ticks) =>
            /\ ret'.err = "nil"
            /\ MutatorDone
            /\ saveChan = SaveChanCap => saveChan' = SaveChanCap]_vars

\* The queue is full and the last call, an AddTag, returned nil with its
\* object in the tag.
C32_Witness ==
    /\ saveChan = SaveChanCap
    /\ ret.op = "AddTag"
    /\ ret.err = "nil"
    /\ HasTagResult(tags, ret.objectID, ret.tag)


\* A trigger was posted and no pass has been made since: a signal is queued
\* or the worker has recorded a last-trigger time.
TriggerPending == saveChan > 0 \/ lastTrigger # -1

\* The worker has made a pass, and every key of a tag that the store holds
\* has the bytes of the tag's bitmap as the index has it.
PassReflectsIndex ==
    /\ passes >= 1
    /\ \A t \in DOMAIN tags :
          Key(t) \in DOMAIN redis => redis[Key(t)] = Serialize(tags[t])

\* The mutations have stopped (the worker has begun to tick) and the ticks
\* the model still follows suffice to drain the queue, one signal a tick, and
\* to let the interval pass: saveChan ticks and at most two more.
MutationsStopped == ticks >= 1 /\ ticks + saveChan + 2 <= MaxTicks

C34_QueryNotInSystemPointInTime ==
    ret.op = "QueryNotInSystem" => ret.bitmap \in ret.views

\* A call has returned a set that was the answer at no point of its
\* lifetime, and the index was changed while it ran.
C34_Witness ==
    /\ ret.op = "QueryNotInSystem"
    /\ Cardinality(ret.views) > 1
    /\ ret.bitmap \notin ret.views


\* C35: the delete a RemoveTag scheduled when it emptied a tag never removes
\* a replica written for that tag afterwards: when the delete runs after the
\* tag was re-created and written by a successful pass, every key the pass
\* wrote is still in the store.
C35_LateDeleteSparesReplica ==
    [][(/\ pendingDel' # pendingDel
        /\ ret' = ret
        /\ ret.op = "SaveToRedis"
        /\ ret.err = "nil")
       => \A t \in DOMAIN tags : Key(t) \in DOMAIN redis => Key(t) \in DOMAIN redis']_vars

\* The pass wrote the re-created tag, the delete scheduled before has run,
\* and the store no longer holds the tag's key.
C35_Witness ==
    /\ ret.op = "SaveToRedis"
    /\ ret.err = "nil"
    /\ "a" \in DOMAIN tags
    /\ Key("a") \notin DOMAIN redis
    /\ pendingDel[Key("a")] = 0

====
